---- MODULE Spec2Model ----
(***************************************************************************)
(* Pegasus-Bazooka: the record normalizer, the filter engine, the merger   *)
(* and the exporters of utils/data_processing.py, and the run of           *)
(* collect_data in main.py over the source adapters.                       *)
(*                                                                         *)
(* Python values are tagged records.  A dict is a function from a fixed    *)
(* universe of keys to values in which the value Absent marks a key that   *)
(* is not in the dict.  A str is a sequence of tokens (a token is one      *)
(* character, or an opaque piece of text such as a timestamp).  A          *)
(* coordinate is an integer number of half degrees.  The number under the  *)
(* key distance is an integer number of thousandths: the 55.66 (km) that   *)
(* filter_by_coordinates stores is 55660, the 55660 (m) the Wikipedia API  *)
(* reports is 55660000.  A statement that raises yields the value          *)
(* Raise(exception) and every later statement of the function is skipped.  *)
(* The disk is the set of directories and the set of files, each a path    *)
(* with the content last written to it.                                    *)
(*                                                                         *)
(* A record is a value; that two lists hold the very same dict is kept in  *)
(* alias: alias.data[i] is the place <<k, j>> of the list of results that  *)
(* holds the dict data[i] as its j-th element (the list of the k-th        *)
(* source), or <<>> when no list of results holds it, and alias.result     *)
(* says the same of the records of a returned list.  A statement that      *)
(* changes a dict in place changes it at every place that holds it.        *)
(***************************************************************************)
EXTENDS Integers, Sequences, FiniteSets, TLC

VARIABLES raw, source, normalized, data, before, call, result,
          args, sources, results, raw_data, run, disk, alias

vars == <<raw, source, normalized, data, before, call, result,
          args, sources, results, raw_data, run, disk, alias>>

----------------------------------------------------------------------------
(* Python values *)

Absent == [t |-> "absent"]
None == [t |-> "None"]
Num(n) == [t |-> "num", v |-> n]
Str(s) == [t |-> "str", v |-> s]
List(s) == [t |-> "list", v |-> s]
Dict(d) == [t |-> "dict", v |-> d]
Datetime(n, aware) == [t |-> "datetime", v |-> n, tz |-> aware]
Raise(e) == [t |-> "raise", exc |-> e]

IsRaise(x) == x.t = "raise"
IsNone(x) == x.t = "None"
IsNum(x) == x.t = "num"
IsStr(x) == x.t = "str"

(* bool(x) *)
Truthy(x) ==
    CASE x.t = "None" -> FALSE
      [] x.t = "num" -> x.v # 0
      [] x.t = "str" -> x.v # <<>>
      [] x.t = "list" -> x.v # <<>>
      [] x.t = "dict" -> \E k \in DOMAIN x.v : x.v[k].t # "absent"
      [] OTHER -> TRUE

(* `k in x`: TRUE/FALSE as a Num(1)/Num(0), or the TypeError Python raises
   when x is not a container *)
In(k, x) ==
    CASE x.t = "raise" -> x
      [] x.t = "dict" -> IF k \in DOMAIN x.v /\ x.v[k].t # "absent" THEN Num(1) ELSE Num(0)
      [] x.t = "list" -> Num(0)
      [] x.t = "str" -> Num(0)
      [] OTHER -> Raise("TypeError")

(* x[k] for a key k *)
Item(x, k) ==
    CASE x.t = "raise" -> x
      [] x.t = "dict" -> IF k \in DOMAIN x.v /\ x.v[k].t # "absent" THEN x.v[k] ELSE Raise("KeyError")
      [] OTHER -> Raise("TypeError")

(* x[i] for a 0-based position i *)
Index(x, i) ==
    CASE x.t = "raise" -> x
      [] x.t = "list" -> IF i + 1 <= Len(x.v) THEN x.v[i + 1] ELSE Raise("IndexError")
      [] x.t = "str" -> IF i + 1 <= Len(x.v) THEN Str(<<x.v[i + 1]>>) ELSE Raise("IndexError")
      [] x.t = "dict" -> Raise("KeyError")
      [] OTHER -> Raise("TypeError")

(* x.get(k, default) *)
Get(x, k, default) ==
    CASE x.t = "raise" -> x
      [] x.t = "dict" -> IF k \in DOMAIN x.v /\ x.v[k].t # "absent" THEN x.v[k] ELSE default
      [] OTHER -> Raise("AttributeError")

(* the text an f-string puts for {x} *)
Format(x) ==
    CASE x.t = "str" -> x.v
      [] x.t = "None" -> <<"None">>
      [] x.t = "num" -> <<ToString(x.v)>>
      [] OTHER -> <<"?">>

----------------------------------------------------------------------------
(* normalize_data *)

RawKeys ==
    {"geo", "place", "user", "text", "created_at", "id_str", "entities",
     "location", "title", "description", "published_at", "id", "thumbnail_url",
     "latitude", "longitude", "date_taken", "owner", "url_m"}

RecordKeys ==
    {"source", "latitude", "longitude", "title", "content", "date", "url",
     "image_url", "raw_data", "distance", "page_id", "snippet"}

(* the dict literal of lines 23-33: the keys it does not name are not in it *)
Defaults(d, src) ==
    Dict([k \in RecordKeys |->
            CASE k = "source" -> Str(<<src>>)
              [] k = "latitude" -> None
              [] k = "longitude" -> None
              [] k = "title" -> Str(<<>>)
              [] k = "content" -> Str(<<>>)
              [] k = "date" -> None
              [] k = "url" -> Str(<<>>)
              [] k = "image_url" -> Str(<<>>)
              [] k = "raw_data" -> d
              [] OTHER -> Absent])

(* normalized[k] = x, where evaluating x may have raised *)
SetKey(n, k, x) ==
    IF IsRaise(n) THEN n
    ELSE IF IsRaise(x) THEN x
    ELSE Dict([n.v EXCEPT ![k] = x])

(* the outcome of a condition that did not raise *)
IsTrue(c) == c.t = "num" /\ c.v # 0
Bool(b) == IF b THEN Num(1) ELSE Num(0)

RECURSIVE SumAt(_, _)
(* sum(c[i] for c in coords) *)
SumAt(coords, i) ==
    IF coords = <<>> THEN Num(0)
    ELSE LET x == Index(Head(coords), i)
             rest == SumAt(Tail(coords), i)
         IN  IF IsRaise(x) THEN x
             ELSE IF ~IsNum(x) THEN Raise("TypeError")
             ELSE IF IsRaise(rest) THEN rest
             ELSE Num(x.v + rest.v)

(* a / len(coords); the inputs of the model have exact quotients *)
Divide(a, n) ==
    IF IsRaise(a) THEN a
    ELSE IF n = 0 THEN Raise("ZeroDivisionError")
    ELSE Num(a.v \div n)

(* lines 37-46 *)
TwitterGeo(d, n) ==
    LET geo == d.v["geo"]
        place == d.v["place"]
        hasGeo == IF geo.t = "absent" \/ ~Truthy(geo) THEN Num(0)
                  ELSE In("coordinates", geo)
        hasPlace == IF place.t = "absent" \/ ~Truthy(place) THEN Num(0)
                    ELSE In("bounding_box", place)
        coords == Index(Item(Item(place, "bounding_box"), "coordinates"), 0)
    IN  IF IsRaise(hasGeo) THEN hasGeo
        ELSE IF IsTrue(hasGeo) THEN
            SetKey(SetKey(n, "latitude", Index(Item(geo, "coordinates"), 0)),
                   "longitude", Index(Item(geo, "coordinates"), 1))
        ELSE IF IsRaise(hasPlace) THEN hasPlace
        ELSE IF IsTrue(hasPlace) THEN
            IF IsRaise(coords) THEN coords
            ELSE IF coords.t # "list" THEN Raise("TypeError")
            ELSE LET lat_sum == SumAt(coords.v, 1)
                     lon_sum == SumAt(coords.v, 0)
                 IN  IF IsRaise(lat_sum) THEN lat_sum
                     ELSE IF IsRaise(lon_sum) THEN lon_sum
                     ELSE SetKey(SetKey(n, "latitude", Divide(lat_sum, Len(coords.v))),
                                 "longitude", Divide(lon_sum, Len(coords.v)))
        ELSE n

(* line 48 *)
TwitterTitle(d, n) ==
    LET name == Get(Get(d, "user", Dict([k \in {"screen_name"} |-> Absent])),
                    "screen_name", Str(<<>>))
    IN  SetKey(n, "title", IF IsRaise(name) THEN name ELSE Str(<<"@">> \o Format(name)))

(* lines 54-55 *)
TwitterUrl(d, n) ==
    LET c == IF d.v["id_str"].t = "absent" \/ d.v["user"].t = "absent" THEN Num(0)
             ELSE In("screen_name", d.v["user"])
    IN  IF IsRaise(c) THEN c
        ELSE IF IsTrue(c) THEN
            SetKey(n, "url", Str(<<"https://twitter.com/">> \o Format(d.v["user"].v["screen_name"])
                                 \o <<"/status/">> \o Format(d.v["id_str"])))
        ELSE n

(* lines 57-58 *)
TwitterImage(d, n) ==
    LET c == IF d.v["entities"].t = "absent" THEN Num(0) ELSE In("media", d.v["entities"])
        media == Item(d.v["entities"], "media")
    IN  IF IsRaise(c) THEN c
        ELSE IF IsTrue(c) /\ Truthy(media) THEN
            SetKey(n, "image_url", Get(Index(media, 0), "media_url_https", Str(<<>>)))
        ELSE n

(* `if k in data: normalized[field] = data[k]` *)
CopyIfPresent(d, n, k, field) ==
    IF d.v[k].t = "absent" THEN n ELSE SetKey(n, field, d.v[k])

(* lines 36-58 *)
NormalizeTwitter(d, n0) ==
    LET n1 == TwitterGeo(d, n0)
        n2 == IF IsRaise(n1) THEN n1 ELSE TwitterTitle(d, n1)
        n3 == SetKey(n2, "content", Get(d, "text", Str(<<>>)))
        n4 == IF IsRaise(n3) THEN n3 ELSE CopyIfPresent(d, n3, "created_at", "date")
        n5 == IF IsRaise(n4) THEN n4 ELSE TwitterUrl(d, n4)
    IN  IF IsRaise(n5) THEN n5 ELSE TwitterImage(d, n5)

(* lines 61-63 *)
YoutubeGeo(d, n) ==
    LET loc == d.v["location"]
        hasLat == IF loc.t = "absent" THEN Num(0) ELSE In("latitude", loc)
        hasLon == In("longitude", loc)
    IN  IF IsRaise(hasLat) THEN hasLat
        ELSE IF ~IsTrue(hasLat) THEN n
        ELSE IF IsRaise(hasLon) THEN hasLon
        ELSE IF ~IsTrue(hasLon) THEN n
        ELSE SetKey(SetKey(n, "latitude", Item(loc, "latitude")),
                    "longitude", Item(loc, "longitude"))

(* lines 60-75 *)
NormalizeYoutube(d, n0) ==
    LET n1 == YoutubeGeo(d, n0)
        n2 == SetKey(n1, "title", Get(d, "title", Str(<<>>)))
        n3 == SetKey(n2, "content", Get(d, "description", Str(<<>>)))
        n4 == IF IsRaise(n3) THEN n3 ELSE CopyIfPresent(d, n3, "published_at", "date")
        n5 == IF IsRaise(n4) \/ d.v["id"].t = "absent" THEN n4
              ELSE SetKey(n4, "url", Str(<<"https://www.youtube.com/watch?v=">> \o Format(d.v["id"])))
    IN  IF IsRaise(n5) THEN n5 ELSE CopyIfPresent(d, n5, "thumbnail_url", "image_url")

(* float(x): the half degrees a numeric text stands for *)
Float(x) ==
    CASE x.t = "raise" -> x
      [] x.t = "num" -> x
      [] x.t = "str" ->
            CASE x.v = <<"0">> -> Num(0)
              [] x.v = <<"0.5">> -> Num(1)
              [] x.v = <<"1">> -> Num(2)
              [] OTHER -> Raise("ValueError")
      [] OTHER -> Raise("TypeError")

(* the coordinates copied as the texts they arrive as, never parsed *)
FlickrGeoKeepsText(d, n) ==
    IF d.v["latitude"].t # "absent" /\ d.v["longitude"].t # "absent"
    THEN SetKey(SetKey(n, "latitude", d.v["latitude"]), "longitude", d.v["longitude"])
    ELSE n

(* lines 78-80 *)
FlickrGeo(d, n) ==
    IF d.v["latitude"].t # "absent" /\ d.v["longitude"].t # "absent"
    THEN SetKey(SetKey(n, "latitude", Float(d.v["latitude"])),
                "longitude", Float(d.v["longitude"]))
    ELSE n

(* lines 77-92 *)
NormalizeFlickr(d, n0) ==
    LET n1 == FlickrGeo(d, n0)
        n2 == SetKey(n1, "title", Get(d, "title", Str(<<>>)))
        n3 == SetKey(n2, "content", Get(d, "description", Str(<<>>)))
        n4 == IF IsRaise(n3) THEN n3 ELSE CopyIfPresent(d, n3, "date_taken", "date")
        n5 == IF IsRaise(n4) \/ d.v["id"].t = "absent" \/ d.v["owner"].t = "absent" THEN n4
              ELSE SetKey(n4, "url", Str(<<"https://www.flickr.com/photos/">> \o Format(d.v["owner"])
                                         \o <<"/">> \o Format(d.v["id"])))
    IN  IF IsRaise(n5) THEN n5 ELSE CopyIfPresent(d, n5, "url_m", "image_url")

normalize_data(d, src) ==
    CASE src = "twitter" -> NormalizeTwitter(d, Defaults(d, src))
      [] src = "youtube" -> NormalizeYoutube(d, Defaults(d, src))
      [] src = "flickr" -> NormalizeFlickr(d, Defaults(d, src))
      [] OTHER -> Defaults(d, src)

----------------------------------------------------------------------------
(* Raw provider payloads handed to normalize_data *)

EmptyRaw == [k \in RawKeys |-> Absent]

Sub(keys, k, x) == Dict([j \in keys |-> IF j = k THEN x ELSE Absent])

GeoKeys == {"type", "coordinates"}
PlaceKeys == {"full_name", "bounding_box"}
UserKeys == {"screen_name", "name"}
EntityKeys == {"media", "hashtags"}
MediaKeys == {"media_url_https"}
LocationKeys == {"latitude", "longitude"}

Vertex(lon, lat) == List(<<Num(lon), Num(lat)>>)
Box(vertices) == Sub(GeoKeys, "coordinates", List(<<List(vertices)>>))

GeoValues ==
    {Absent, None,
     Sub(GeoKeys, "type", Str(<<"Point">>)),
     Sub(GeoKeys, "coordinates", List(<<>>)),
     Sub(GeoKeys, "coordinates", List(<<Num(0)>>)),
     Sub(GeoKeys, "coordinates", List(<<Num(0), Num(2)>>)),
     Sub(GeoKeys, "coordinates", List(<<None, Num(2)>>))}

PlaceValues ==
    {Absent, None,
     Sub(PlaceKeys, "full_name", Str(<<"a">>)),
     Sub(PlaceKeys, "bounding_box", None),
     Sub(PlaceKeys, "bounding_box", Box(<<>>)),
     Sub(PlaceKeys, "bounding_box",
         Box(<<Vertex(0, 2), Vertex(0, 4), Vertex(2, 4), Vertex(2, 2)>>))}

UserValues ==
    {Absent, None, Sub(UserKeys, "name", Str(<<"a">>)), Sub(UserKeys, "screen_name", Str(<<"B">>))}

TextValues == {Absent, None, Str(<<"a">>)}

EntityValues ==
    {Absent, None,
     Sub(EntityKeys, "media", List(<<>>)),
     Sub(EntityKeys, "media", List(<<Sub(MediaKeys, "media_url_https", Str(<<"img">>))>>))}

LocationValues ==
    {Absent, None,
     Sub(LocationKeys, "latitude", Num(0)),
     Dict([latitude |-> Num(0), longitude |-> Num(2)]),
     Dict([latitude |-> None, longitude |-> Num(2)]),
     Dict([latitude |-> Num(2), longitude |-> None]),
     Dict([latitude |-> Num(190), longitude |-> Num(2)])}

FlickrCoordValues == {Absent, None, Str(<<"0.5">>), Str(<<"1">>), Str(<<"abc">>)}

IdValues == {Absent, Str(<<"123">>)}

NativeDate == "Tue Jan 02 10:00:00 +0000 2024"
IsoDate == "2024-01-02T10:00:00+0000"
PlainBefore == "2023-12-31 10:00:00"
PlainAt == "2024-01-01 00:00:00"
PlainAfter == "2024-01-02 10:00:00"
BadDate == "yesterday"
PlainDay == "2024-01-01"

TwitterRaw ==
    {Dict([EmptyRaw EXCEPT !["geo"] = g, !["place"] = p, !["user"] = u, !["text"] = x,
                           !["created_at"] = c, !["id_str"] = i, !["entities"] = e]) :
        g \in GeoValues, p \in PlaceValues, u \in UserValues, x \in TextValues,
        c \in {Absent, Str(<<NativeDate>>)}, i \in IdValues, e \in EntityValues}

YoutubeRaw ==
    {Dict([EmptyRaw EXCEPT !["location"] = l, !["title"] = x, !["description"] = y,
                           !["published_at"] = c, !["id"] = i, !["thumbnail_url"] = m]) :
        l \in LocationValues, x \in TextValues, y \in {Absent, Str(<<"b">>)},
        c \in {Absent, Str(<<IsoDate>>)}, i \in IdValues, m \in {Absent, Str(<<"img">>)}}

FlickrRaw ==
    {Dict([EmptyRaw EXCEPT !["latitude"] = la, !["longitude"] = lo, !["title"] = x,
                           !["description"] = y, !["date_taken"] = c, !["id"] = i,
                           !["owner"] = o, !["url_m"] = m]) :
        la \in FlickrCoordValues, lo \in FlickrCoordValues, x \in TextValues,
        y \in {Absent, Str(<<"b">>)}, c \in {Absent, Str(<<PlainAfter>>)}, i \in IdValues,
        o \in {Absent, Str(<<"u1">>)}, m \in {Absent, Str(<<"img">>)}}

RawInputs == TwitterRaw \cup YoutubeRaw \cup FlickrRaw

KnownSources == {"twitter", "youtube", "flickr"}
Sources == KnownSources \cup {"wikipedia", "myspace"}

(* the source names the program knows *)
SourceNames ==
    {"twitter", "flickr", "youtube", "wikipedia", "vk", "instagram", "trendsmap", "pastvu",
     "painted_planet"}

(* the records get_nearby_articles returns: no source, date or raw_data; the
   distance is the API's dist, 55660 metres *)
WikipediaRecord(lat, lon, content, url, image_url) ==
    Dict([k \in RecordKeys |->
            CASE k = "title" -> Str(<<"a">>)
              [] k = "latitude" -> lat
              [] k = "longitude" -> lon
              [] k = "distance" -> Num(55660000)
              [] k = "page_id" -> Num(7)
              [] k = "content" -> content
              [] k = "url" -> url
              [] k = "image_url" -> image_url
              [] OTHER -> Absent])

WikipediaRecords ==
    {WikipediaRecord(c[1], c[2], x, u, m) :
        c \in {<<Num(0), Num(1)>>, <<None, None>>}, x \in {Str(<<>>), Str(<<"b">>)},
        u \in {Str(<<>>), Str(<<"https://en.wikipedia.org/wiki/a">>)},
        m \in {Str(<<>>), Str(<<"img">>)}}

----------------------------------------------------------------------------
(* The normalizer applied to one raw record under one source tag *)

NoCall == [op |-> "none", args |-> <<>>]

(* no command line: the functions are called on their own *)
NoArgs == [mode |-> "none"]

(* the directories and the files, each a path with its content, when nothing
   was written yet *)
NoFiles == [dirs |-> {}, files |-> {}]

(* the places of a list whose dicts no list of results holds *)
Unshared(d) == [i \in 1..Len(d) |-> <<>>]

(* no record in data and no returned list *)
NoAlias == [data |-> <<>>, result |-> <<>>]

Init ==
    /\ \E p \in (RawInputs \X Sources) \cup (WikipediaRecords \X {"wikipedia"}) :
          raw = p[1] /\ source = p[2]
    /\ normalized = Absent
    /\ data = <<>>
    /\ before = <<>>
    /\ call = NoCall
    /\ result = Absent
    /\ args = NoArgs
    /\ sources = <<>>
    /\ results = <<>>
    /\ raw_data = Absent
    /\ run = "idle"
    /\ disk = NoFiles
    /\ alias = NoAlias

Normalize ==
    /\ normalized = Absent
    /\ normalized' = normalize_data(raw, source)
    /\ UNCHANGED <<raw, source, data, before, call, result, args, sources, results, raw_data, run, disk, alias>>

Next == Normalize

Spec == Init /\ [][Next]_vars

----------------------------------------------------------------------------
(* filter_by_coordinates *)

(* geopy 2.x's Point(latitude, longitude), which geodesic() builds from each
   of its arguments: a number alone is rejected, a missing coordinate counts as
   0.0, a latitude beyond 90 degrees is rejected *)
PointOf(lat, lon) ==
    IF ~IsNone(lat) /\ IsNone(lon) THEN Raise("ValueError")
    ELSE LET a == IF Truthy(lat) THEN Float(lat) ELSE Num(0)
             b == IF Truthy(lon) THEN Float(lon) ELSE Num(0)
         IN  IF IsRaise(a) THEN a
             ELSE IF IsRaise(b) THEN b
             ELSE IF a.v > 180 \/ a.v < -180 THEN Raise("ValueError")
             ELSE List(<<a, b>>)

Abs(x) == IF x < 0 THEN -x ELSE x
Min(x, y) == IF x <= y THEN x ELSE y
Max(x, y) == IF x <= y THEN y ELSE x

(* the WGS-84 geodesic length in metres between two points of the half-degree
   grid 0..2 x 0..2, by the lower latitude, the higher latitude and the
   difference in longitude *)
GeodesicMetres(lo, hi, dlon) ==
    CASE <<lo, hi, dlon>> = <<0, 0, 0>> -> 0
      [] <<lo, hi, dlon>> = <<0, 0, 1>> -> 55660
      [] <<lo, hi, dlon>> = <<0, 0, 2>> -> 111319
      [] <<lo, hi, dlon>> = <<0, 1, 0>> -> 55287
      [] <<lo, hi, dlon>> = <<0, 1, 1>> -> 78451
      [] <<lo, hi, dlon>> = <<0, 1, 2>> -> 124292
      [] <<lo, hi, dlon>> = <<0, 2, 0>> -> 110574
      [] <<lo, hi, dlon>> = <<0, 2, 1>> -> 123792
      [] <<lo, hi, dlon>> = <<0, 2, 2>> -> 156900
      [] <<lo, hi, dlon>> = <<1, 1, 0>> -> 0
      [] <<lo, hi, dlon>> = <<1, 1, 1>> -> 55658
      [] <<lo, hi, dlon>> = <<1, 1, 2>> -> 111315
      [] <<lo, hi, dlon>> = <<1, 2, 0>> -> 55287
      [] <<lo, hi, dlon>> = <<1, 2, 1>> -> 78448
      [] <<lo, hi, dlon>> = <<1, 2, 2>> -> 124284
      [] <<lo, hi, dlon>> = <<2, 2, 0>> -> 0
      [] <<lo, hi, dlon>> = <<2, 2, 1>> -> 55651
      [] <<lo, hi, dlon>> = <<2, 2, 2>> -> 111303

(* geodesic(center, point_coords).kilometers *)
geodesic(center, point_coords) ==
    LET a == PointOf(center[1], center[2])
        b == PointOf(point_coords[1], point_coords[2])
    IN  IF IsRaise(a) THEN a
        ELSE IF IsRaise(b) THEN b
        ELSE Num(GeodesicMetres(Min(a.v[1].v, b.v[1].v), Max(a.v[1].v, b.v[1].v),
                                Abs(a.v[2].v - b.v[2].v)))

HasKey(point, k) == point.v[k].t # "absent"

(* line 119 *)
WithinRadius(distance, radius_km) == distance.v <= radius_km

RECURSIVE CoordinatesLoop(_, _, _, _, _)
(* lines 114-121, from the i-th point on: objs are the caller's records, which
   the loop changes in place, filtered_data the list built so far *)
CoordinatesLoop(objs, i, filtered_data, center, radius_km) ==
    IF i > Len(objs) THEN [objs |-> objs, ret |-> List(filtered_data)]
    ELSE LET point == objs[i] IN
        IF HasKey(point, "latitude") /\ HasKey(point, "longitude") THEN
            LET distance == geodesic(center, <<point.v["latitude"], point.v["longitude"]>>) IN
            IF IsRaise(distance) THEN [objs |-> objs, ret |-> distance]
            ELSE IF WithinRadius(distance, radius_km) THEN
                LET kept == SetKey(point, "distance", distance)
                IN  CoordinatesLoop([objs EXCEPT ![i] = kept], i + 1,
                                    Append(filtered_data, kept), center, radius_km)
            ELSE CoordinatesLoop(objs, i + 1, filtered_data, center, radius_km)
        ELSE CoordinatesLoop(objs, i + 1, filtered_data, center, radius_km)

(* lines 98-123: ret is the returned list (or the exception), objs the
   records of the argument after the call *)
filter_by_coordinates(d, center_lat, center_lon, radius_km) ==
    CoordinatesLoop(d, 1, <<>>, <<Num(center_lat), Num(center_lon)>>, radius_km)

----------------------------------------------------------------------------
(* filter_by_date *)

(* the list with the ISO-8601 format tried first *)
DateFormatsIsoFirst == <<"%Y-%m-%dT%H:%M:%S%z", "%Y-%m-%d %H:%M:%S", "%a %b %d %H:%M:%S %z %Y">>

DateFormats == <<"%Y-%m-%d %H:%M:%S", "%Y-%m-%dT%H:%M:%S%z", "%a %b %d %H:%M:%S %z %Y">>

(* datetime.strptime(s, fmt) on the timestamps of the model; a point in time
   is a number of hours since 2023-12-31 00:00 and is offset-aware or not *)
strptime(s, fmt) ==
    CASE fmt = "%Y-%m-%d %H:%M:%S" /\ s.v = <<PlainBefore>> -> Datetime(10, FALSE)
      [] fmt = "%Y-%m-%d %H:%M:%S" /\ s.v = <<PlainAt>> -> Datetime(24, FALSE)
      [] fmt = "%Y-%m-%d %H:%M:%S" /\ s.v = <<PlainAfter>> -> Datetime(58, FALSE)
      [] fmt = "%Y-%m-%dT%H:%M:%S%z" /\ s.v = <<IsoDate>> -> Datetime(58, TRUE)
      [] fmt = "%a %b %d %H:%M:%S %z %Y" /\ s.v = <<NativeDate>> -> Datetime(58, TRUE)
      [] fmt = "%Y-%m-%d" /\ s.v = <<PlainDay>> -> Datetime(24, FALSE)
      [] OTHER -> Raise("ValueError")

RECURSIVE TryFormats(_, _, _)
(* lines 151-156: the first format that parses wins; with none, point_date
   stays the string *)
TryFormats(point_date, formats, i) ==
    IF i > Len(formats) THEN point_date
    ELSE LET parsed == strptime(point_date, formats[i])
         IN  IF IsRaise(parsed) THEN TryFormats(point_date, formats, i + 1) ELSE parsed

RECURSIVE FormatsTried(_, _, _)
(* lines 151-156: the formats strptime is called with for one string, in the
   order of the calls, up to the first that parses *)
FormatsTried(point_date, formats, i) ==
    IF i > Len(formats) THEN <<>>
    ELSE IF IsRaise(strptime(point_date, formats[i]))
         THEN <<formats[i]>> \o FormatsTried(point_date, formats, i + 1)
    ELSE <<formats[i]>>

(* a < b on datetimes: TypeError between an offset-aware and an offset-naive one *)
Before(a, b) ==
    IF a.tz # b.tz THEN Raise("TypeError") ELSE Bool(a.v < b.v)

(* a step that keeps a point that has no date *)
DateStepKeepingUndated(point, start_date, end_date) ==
    IF ~HasKey(point, "date") \/ ~Truthy(point.v["date"]) THEN Num(1)
    ELSE LET point_date == IF IsStr(point.v["date"])
                           THEN TryFormats(point.v["date"], DateFormats, 1)
                           ELSE point.v["date"]
             early == IF Truthy(start_date) THEN Before(point_date, start_date) ELSE Num(0)
             late == IF Truthy(end_date) THEN Before(end_date, point_date) ELSE Num(0)
         IN  IF point_date.t # "datetime" THEN Num(0)
             ELSE IF IsRaise(early) THEN early
             ELSE IF IsTrue(early) THEN Num(0)
             ELSE IF IsRaise(late) THEN late
             ELSE IF IsTrue(late) THEN Num(0)
             ELSE Num(1)

(* lines 143-170 for one point: Num(1) to keep it, Num(0) to skip it, or the
   exception raised *)
DateStep(point, start_date, end_date) ==
    IF ~HasKey(point, "date") \/ ~Truthy(point.v["date"]) THEN Num(0)
    ELSE LET point_date == IF IsStr(point.v["date"])
                           THEN TryFormats(point.v["date"], DateFormats, 1)
                           ELSE point.v["date"]
             early == IF Truthy(start_date) THEN Before(point_date, start_date) ELSE Num(0)
             late == IF Truthy(end_date) THEN Before(end_date, point_date) ELSE Num(0)
         IN  IF point_date.t # "datetime" THEN Num(0)
             ELSE IF IsRaise(early) THEN early
             ELSE IF IsTrue(early) THEN Num(0)
             ELSE IF IsRaise(late) THEN late
             ELSE IF IsTrue(late) THEN Num(0)
             ELSE Num(1)

RECURSIVE DateLoopStoringParsed(_, _, _, _, _)
(* a loop that keeps each point with its date replaced by the parsed one *)
DateLoopStoringParsed(d, i, filtered_data, start_date, end_date) ==
    IF i > Len(d) THEN List(filtered_data)
    ELSE LET keep == DateStep(d[i], start_date, end_date)
         IN  IF IsRaise(keep) THEN keep
             ELSE DateLoopStoringParsed(
                      d, i + 1,
                      IF IsTrue(keep)
                      THEN Append(filtered_data,
                                  IF IsStr(d[i].v["date"])
                                  THEN SetKey(d[i], "date", TryFormats(d[i].v["date"], DateFormats, 1))
                                  ELSE d[i])
                      ELSE filtered_data,
                      start_date, end_date)

RECURSIVE DateLoop(_, _, _, _, _)
(* lines 142-170 *)
DateLoop(d, i, filtered_data, start_date, end_date) ==
    IF i > Len(d) THEN List(filtered_data)
    ELSE LET keep == DateStep(d[i], start_date, end_date)
         IN  IF IsRaise(keep) THEN keep
             ELSE DateLoop(d, i + 1,
                           IF IsTrue(keep) THEN Append(filtered_data, d[i]) ELSE filtered_data,
                           start_date, end_date)

(* filter_by_date without the early return of lines 137-138 *)
FilterByDateAlwaysLoops(d, start_date, end_date) ==
    DateLoop(d, 1, <<>>, start_date, end_date)

(* lines 125-172 *)
filter_by_date(d, start_date, end_date) ==
    IF ~Truthy(start_date) /\ ~Truthy(end_date) THEN List(d)
    ELSE DateLoop(d, 1, <<>>, start_date, end_date)

----------------------------------------------------------------------------
(* filter_by_keyword *)

(* str.lower() on one character *)
LowerChar(c) ==
    CASE c = "A" -> "a"
      [] c = "B" -> "b"
      [] OTHER -> c

(* x.lower() *)
Lower(x) ==
    CASE x.t = "raise" -> x
      [] x.t = "str" -> Str([i \in 1..Len(x.v) |-> LowerChar(x.v[i])])
      [] OTHER -> Raise("AttributeError")

(* keyword in text *)
Contains(text, keyword) ==
    \E i \in 0..(Len(text) - Len(keyword)) : SubSeq(text, i + 1, i + Len(keyword)) = keyword

(* line 196 *)
JoinText(title, content) == title \o <<" ">> \o content

(* lines 194-198 for one point: Num(1) to keep it, Num(0) to skip it, or the
   exception raised *)
KeywordStep(point, keywords) ==
    LET title == Lower(Get(point, "title", Str(<<>>)))
        content == Lower(Get(point, "content", Str(<<>>)))
    IN  IF IsRaise(title) THEN title
        ELSE IF IsRaise(content) THEN content
        ELSE Bool(\E j \in 1..Len(keywords) :
                     Contains(JoinText(title.v, content.v), keywords[j].v))

RECURSIVE KeywordLoop(_, _, _, _)
(* lines 192-199 *)
KeywordLoop(d, i, filtered_data, keywords) ==
    IF i > Len(d) THEN List(filtered_data)
    ELSE LET keep == KeywordStep(d[i], keywords)
         IN  IF IsRaise(keep) THEN keep
             ELSE KeywordLoop(d, i + 1,
                              IF IsTrue(keep) THEN Append(filtered_data, d[i]) ELSE filtered_data,
                              keywords)

(* lines 174-201 *)
filter_by_keyword(d, keywords) ==
    IF keywords = <<>> THEN List(d)
    ELSE KeywordLoop(d, 1, <<>>, [j \in 1..Len(keywords) |-> Lower(keywords[j])])

----------------------------------------------------------------------------
(* The filter engine applied to collections of normalized records *)

MaxLen == 2

(* a raw payload with the given keys *)
RawOf(fields) == Dict([k \in RawKeys |-> IF k \in DOMAIN fields THEN fields[k] ELSE Absent])

(* payloads of the providers, each with its source tag *)
Fixtures ==
    {<<RawOf([latitude |-> Str(<<"0">>), longitude |-> Str(<<"0">>), title |-> Str(<<"a">>),
              description |-> Str(<<"b">>), date_taken |-> Str(<<PlainAfter>>)]), "flickr">>,
     <<RawOf([title |-> Str(<<"B">>), date_taken |-> Str(<<PlainBefore>>)]), "flickr">>,
     <<RawOf([latitude |-> Str(<<"1">>), longitude |-> Str(<<"1">>),
              description |-> Str(<<"b">>), date_taken |-> Str(<<PlainAt>>)]), "flickr">>,
     <<RawOf([latitude |-> Str(<<"0">>), longitude |-> Str(<<"0.5">>), title |-> Str(<<"a">>),
              date_taken |-> Str(<<BadDate>>)]), "flickr">>,
     <<RawOf([title |-> Str(<<"a">>), description |-> Str(<<"b">>),
              date_taken |-> Str(<<>>)]), "flickr">>,
     <<RawOf([geo |-> Sub(GeoKeys, "coordinates", List(<<Num(0), Num(2)>>)),
              user |-> Sub(UserKeys, "screen_name", Str(<<"B">>)), text |-> Str(<<"a">>),
              created_at |-> Str(<<NativeDate>>)]), "twitter">>,
     <<RawOf([text |-> None]), "twitter">>,
     <<RawOf([location |-> Dict([latitude |-> None, longitude |-> Num(2)]),
              title |-> Str(<<"a">>), published_at |-> Str(<<IsoDate>>)]), "youtube">>,
     <<RawOf([location |-> Dict([latitude |-> Num(2), longitude |-> None]),
              title |-> Str(<<"b">>)]), "youtube">>}

(* the records of the lists the filters are given: the records normalize_data
   makes of the payloads, and one as get_nearby_articles builds it and the
   wikipedia branch of collect_data stamps it *)
FilterRecords ==
    {normalize_data(f[1], f[2]) : f \in Fixtures}
    \cup {SetKey(WikipediaRecord(Num(0), Num(1), Str(<<"b">>), Str(<<>>), Str(<<>>)),
                 "source", Str(<<"wikipedia">>))}

Centers == {<<0, 0>>, <<2, 2>>}
Radii == {0, 60000, 200000}
StartDates == {None, Datetime(24, FALSE)}
EndDates == {None, Datetime(24, FALSE), Datetime(58, FALSE)}
KeywordLists ==
    {<<>>, <<Str(<<"A">>)>>, <<Str(<<"a", "b">>)>>, <<Str(<<" ">>)>>,
     <<Str(<<"x">>), Str(<<"B">>)>>}

(* the positions of the records that a filter appended to the list it
   returned: each filter decides on a record by that record alone, so they
   are the positions of the records it keeps of a list of one; alone[i] is
   what the filter returns for the list of the i-th record *)
Kept(alone) ==
    SelectSeq([i \in 1..Len(alone) |-> i],
              LAMBDA i : alone[i].t = "list" /\ alone[i].v # <<>>)

(* the places of the dicts at the given positions of a list *)
Pick(places, positions) == [n \in 1..Len(positions) |-> places[positions[n]]]

(* the lists of a dict of sources once the dicts at the given places are the
   records objs *)
Store(items, places, objs) ==
    [k \in 1..Len(items) |->
        <<items[k][1],
          IF items[k][2].t = "list"
          THEN List([j \in 1..Len(items[k][2].v) |->
                        IF \E i \in 1..Len(places) : places[i] = <<k, j>>
                        THEN objs[CHOOSE i \in 1..Len(places) : places[i] = <<k, j>>]
                        ELSE items[k][2].v[j]])
          ELSE items[k][2]>>]

(* a caller holds a list of at most MaxLen records that no other list holds *)
InitFilter ==
    /\ raw = Dict(EmptyRaw)
    /\ source = "flickr"
    /\ normalized = Absent
    /\ data \in UNION {[1..n -> FilterRecords] : n \in 0..MaxLen}
    /\ before = <<>>
    /\ call = NoCall
    /\ result = Absent
    /\ args = NoArgs
    /\ sources = <<>>
    /\ results = <<>>
    /\ raw_data = Absent
    /\ run = "idle"
    /\ disk = NoFiles
    /\ alias = [data |-> Unshared(data), result |-> <<>>]

(* point['distance'] = distance changes the dict where it is: in the caller's
   list and in the list of results that holds it; the returned list holds
   the dicts the loop appended *)
FilterCoordinates ==
    /\ call = NoCall
    /\ \E c \in Centers, r \in Radii :
        LET out == filter_by_coordinates(data, c[1], c[2], r)
        IN  /\ call' = [op |-> "filter_by_coordinates", args |-> <<c[1], c[2], r>>]
            /\ before' = data
            /\ data' = out.objs
            /\ results' = Store(results, alias.data, out.objs)
            /\ result' = out.ret
            /\ alias' = [alias EXCEPT !.result =
                            IF out.ret.t = "list"
                            THEN Pick(alias.data,
                                      Kept([i \in 1..Len(data) |->
                                              filter_by_coordinates(<<data[i]>>, c[1], c[2], r).ret]))
                            ELSE <<>>]
    /\ UNCHANGED <<raw, source, normalized, args, sources, raw_data, run, disk>>

FilterDate ==
    /\ call = NoCall
    /\ \E s \in StartDates, e \in EndDates :
        /\ call' = [op |-> "filter_by_date", args |-> <<s, e>>]
        /\ before' = data
        /\ result' = filter_by_date(data, s, e)
        /\ alias' = [alias EXCEPT !.result =
                        IF filter_by_date(data, s, e).t = "list"
                        THEN Pick(alias.data,
                                  Kept([i \in 1..Len(data) |-> filter_by_date(<<data[i]>>, s, e)]))
                        ELSE <<>>]
    /\ UNCHANGED <<raw, source, normalized, data, args, sources, results, raw_data, run, disk>>

FilterKeyword ==
    /\ call = NoCall
    /\ \E k \in KeywordLists :
        /\ call' = [op |-> "filter_by_keyword", args |-> <<k>>]
        /\ before' = data
        /\ result' = filter_by_keyword(data, k)
        /\ alias' = [alias EXCEPT !.result =
                        IF filter_by_keyword(data, k).t = "list"
                        THEN Pick(alias.data,
                                  Kept([i \in 1..Len(data) |-> filter_by_keyword(<<data[i]>>, k)]))
                        ELSE <<>>]
    /\ UNCHANGED <<raw, source, normalized, data, args, sources, results, raw_data, run, disk>>

(* x = f(x, ...): the caller goes on with the returned list *)
Rebind ==
    /\ call # NoCall
    /\ result.t = "list"
    /\ data' = result.v
    /\ before' = <<>>
    /\ call' = NoCall
    /\ result' = Absent
    /\ alias' = [data |-> alias.result, result |-> <<>>]
    /\ UNCHANGED <<raw, source, normalized, args, sources, results, raw_data, run, disk>>

NextFilter == FilterCoordinates \/ FilterDate \/ FilterKeyword \/ Rebind

SpecFilter == InitFilter /\ [][NextFilter]_vars

----------------------------------------------------------------------------
(* merge_data_sources *)

(* a dict in insertion order is the sequence of its <<key, value>> items *)
ItemsOf(d) == d

RECURSIVE MergeLoop(_, _, _)
(* lines 216-218, from the i-th item of data_sources.items() on *)
MergeLoop(items, i, merged_data) ==
    IF i > Len(items) THEN List(merged_data)
    ELSE LET d == items[i][2]
         IN  MergeLoop(items, i + 1,
                       IF Truthy(d) THEN merged_data \o d.v ELSE merged_data)

RECURSIVE DistinctLoop(_, _, _)
(* a merge that leaves out a record equal to one it already holds *)
DistinctLoop(records, i, merged_data) ==
    IF i > Len(records) THEN merged_data
    ELSE DistinctLoop(records, i + 1,
                      IF \E j \in 1..Len(merged_data) : merged_data[j] = records[i]
                      THEN merged_data ELSE Append(merged_data, records[i]))

MergeWithoutDuplicates(data_sources) ==
    List(DistinctLoop(MergeLoop(ItemsOf(data_sources), 1, <<>>).v, 1, <<>>))

(* lines 203-219 *)
merge_data_sources(data_sources) ==
    MergeLoop(ItemsOf(data_sources), 1, <<>>)

RECURSIVE PlacesLoop(_, _, _)
(* the places of the dicts merged_data.extend(source_data) puts into the
   merged list, from the i-th item on: the list holds the dicts themselves *)
PlacesLoop(items, i, places) ==
    IF i > Len(items) THEN places
    ELSE LET d == items[i][2]
         IN  PlacesLoop(items, i + 1,
                        IF Truthy(d) THEN places \o [j \in 1..Len(d.v) |-> <<i, j>>]
                        ELSE places)

(* the records the per-source lists are made of *)
MergeRecords ==
    {normalize_data(RawOf([latitude |-> Str(<<"0">>), longitude |-> Str(<<"0">>),
                           title |-> Str(<<"a">>)]), "flickr"),
     normalize_data(RawOf([title |-> Str(<<"B">>)]), "flickr")}

MergeNames == {"twitter", "flickr", "wikipedia"}

(* a source's entry: a list of at most MaxLen records, or None *)
MergeValues ==
    {None} \cup {List(l) : l \in UNION {[1..n -> MergeRecords] : n \in 0..MaxLen}}

(* the dicts of up to three sources, in every insertion order *)
DataSources ==
    UNION {{d \in [1..n -> MergeNames \X MergeValues] :
               \A i, j \in 1..n : i # j => d[i][1] # d[j][1]} : n \in 0..Cardinality(MergeNames)}

InitMerge ==
    /\ raw = Dict(EmptyRaw)
    /\ source = "flickr"
    /\ normalized = Absent
    /\ data = <<>>
    /\ before = <<>>
    /\ call = NoCall
    /\ result = Absent
    /\ args = NoArgs
    /\ sources = <<>>
    /\ results \in DataSources
    /\ raw_data = Absent
    /\ run = "idle"
    /\ disk = NoFiles
    /\ alias = NoAlias

Merge ==
    /\ call = NoCall
    /\ call' = [op |-> "merge_data_sources", args |-> <<results>>]
    /\ result' = merge_data_sources(results)
    /\ alias' = [alias EXCEPT !.result = PlacesLoop(ItemsOf(results), 1, <<>>)]
    /\ UNCHANGED <<raw, source, normalized, data, before, args, sources, results, raw_data, run, disk>>

NextMerge == Merge

SpecMerge == InitMerge /\ [][NextMerge]_vars

----------------------------------------------------------------------------
(* The merger followed by the filters *)

(* the records of the per-source lists *)
PipelineRecords ==
    {normalize_data(RawOf([latitude |-> Str(<<"0">>), longitude |-> Str(<<"0">>),
                           title |-> Str(<<"a">>), description |-> Str(<<"b">>),
                           date_taken |-> Str(<<PlainAfter>>)]), "flickr"),
     normalize_data(RawOf([title |-> Str(<<"B">>), date_taken |-> Str(<<PlainBefore>>)]),
                    "flickr"),
     normalize_data(RawOf([location |-> Dict([latitude |-> Num(2), longitude |-> None]),
                           title |-> Str(<<"a">>), published_at |-> Str(<<IsoDate>>)]),
                    "youtube")}

(* a source's entry: a list of at most MaxLen records, or None *)
PipelineValues ==
    {None} \cup {List(l) : l \in UNION {[1..n -> PipelineRecords] : n \in 0..MaxLen}}

(* the sources of a dict, in the order they were put in *)
PipelineNames == <<"twitter", "flickr">>

RECURSIVE Held(_, _)
(* the number of records in the first n of the given values *)
Held(values, n) ==
    IF n = 0 THEN 0
    ELSE Held(values, n - 1) + (IF values[n].t = "list" THEN Len(values[n].v) ELSE 0)

(* the dicts of no source, of one and of two, that hold at most MaxLen
   records in all *)
PipelineSources ==
    UNION {{[i \in 1..n |-> <<PipelineNames[i], f[i]>>] :
               f \in {g \in [1..n -> PipelineValues] : Held(g, n) <= MaxLen}} :
              n \in 0..Len(PipelineNames)}

InitPipeline ==
    /\ raw = Dict(EmptyRaw)
    /\ source = "flickr"
    /\ normalized = Absent
    /\ data = <<>>
    /\ before = <<>>
    /\ call = NoCall
    /\ result = Absent
    /\ args = NoArgs
    /\ sources = <<>>
    /\ results \in PipelineSources
    /\ raw_data = Absent
    /\ run = "idle"
    /\ disk = NoFiles
    /\ alias = NoAlias

NextPipeline == Merge \/ FilterCoordinates \/ FilterDate \/ FilterKeyword \/ Rebind

SpecPipeline == InitPipeline /\ [][NextPipeline]_vars

----------------------------------------------------------------------------
(* export_to_csv and export_to_json *)

(* pd.DataFrame(data): one column for every key of some record, one row for
   every record; the cell of a key the record lacks is NaN, here Absent *)
DataFrame(d) ==
    LET columns == {k \in RecordKeys : \E i \in 1..Len(d) : HasKey(d[i], k)}
    IN  [columns |-> columns, rows |-> [i \in 1..Len(d) |-> [k \in columns |-> d[i].v[k]]]]

(* df.drop(k, axis=1) *)
Drop(df, k) ==
    [columns |-> df.columns \ {k},
     rows |-> [i \in 1..Len(df.rows) |-> [j \in df.columns \ {k} |-> df.rows[i][j]]]]

(* the text to_csv writes in a cell: nothing for None and NaN, str(value)
   for a datetime *)
Cell(x) ==
    CASE x.t \in {"absent", "None"} -> Str(<<>>)
      [] x.t = "datetime" -> Str(<<" ", ToString(x.v), IF x.tz THEN "+00:00" ELSE "">>)
      [] OTHER -> Str(Format(x))

(* df.to_csv(output_path, index=False): the header and one line per row *)
ToCsv(df) ==
    [t |-> "csv", columns |-> df.columns,
     rows |-> [i \in 1..Len(df.rows) |-> [k \in df.columns |-> Cell(df.rows[i][k])]]]

(* config.DEFAULT_OUTPUT_DIRECTORY *)
DEFAULT_OUTPUT_DIRECTORY == "results"

(* lines 235-237 and 270-272: the name given to a file that was not named;
   the time of the call is one token *)
DefaultName(ext) == Str(<<"pegasus_data_", "timestamp", ext>>)

(* os.path.join(output_dir, filename): a path is a text in which every '/'
   is a token of its own; an absolute filename is the whole path and the
   directory is dropped *)
Join(output_dir, filename) ==
    IF filename.v # <<>> /\ filename.v[1] = "/" THEN filename
    ELSE Str(<<output_dir, "/">> \o filename.v)

(* lines 240-241 and 275-276: os.makedirs(output_dir) unless it exists; a
   directory is the tokens of its path *)
MakeDirs(files, output_dir) == [files EXCEPT !.dirs = @ \cup {<<output_dir>>}]

(* whether open(path, 'w') finds the directory of the path: the working
   directory, the root and /tmp are there before the program runs, any other
   directory when it was made *)
ParentExists(files, path) ==
    LET slashes == {i \in 1..Len(path.v) : path.v[i] = "/"}
        last == CHOOSE i \in slashes : \A j \in slashes : j <= i
        parent == IF slashes = {} THEN <<>>
                  ELSE IF last = 1 THEN <<"/">>
                  ELSE SubSeq(path.v, 1, last - 1)
    IN  parent \in {<<>>, <<"/">>, <<"/", "tmp">>} \cup files.dirs

(* the file at path written anew with the given content *)
WriteFile(files, path, content) ==
    [files EXCEPT !.files = {f \in @ : f[1] # path} \cup {<<path, content>>}]

(* lines 246-253: what to_csv writes *)
CsvText(d) ==
    ToCsv(IF "raw_data" \in DataFrame(d).columns THEN Drop(DataFrame(d), "raw_data")
          ELSE DataFrame(d))

(* value.isoformat() *)
IsoFormat(x) == Str(<<"T", ToString(x.v), IF x.tz THEN "+00:00" ELSE "">>)

(* lines 285-291 on the dict they are given *)
Serializable(item) ==
    Dict([k \in DOMAIN item.v |->
            IF k = "raw_data" THEN Absent
            ELSE IF item.v[k].t = "datetime" THEN IsoFormat(item.v[k])
            ELSE item.v[k]])

(* the item changed where it is, without a copy *)
JsonStepInPlace(item) ==
    [item |-> Serializable(item), serializable_item |-> Serializable(item)]

(* lines 283-293 for one item: item.copy() is changed and appended, the
   caller's item is left as it is *)
JsonStep(item) ==
    [item |-> item, serializable_item |-> Serializable(item)]

(* a text that holds the items whole *)
JsonTextWithRawData(d) == [t |-> "json", objects |-> d]

(* lines 281-297: what json.dump writes, object by object and key by key *)
JsonText(d) ==
    [t |-> "json", objects |-> [i \in 1..Len(d) |-> JsonStep(d[i]).serializable_item]]

(* lines 232-243 and 253-254, lines 267-278 and 296-299: ret is the value
   returned, disk the directories and files after the call; the file is
   opened after the output directory was made, and a path whose directory is
   not there raises: OSError in to_csv, FileNotFoundError in open *)
Write(d, filename, ext, content, files) ==
    IF d = <<>> THEN [ret |-> None, disk |-> files]
    ELSE LET name == IF IsNone(filename) THEN DefaultName(ext) ELSE filename
             output_path == Join(DEFAULT_OUTPUT_DIRECTORY, name)
             made == MakeDirs(files, DEFAULT_OUTPUT_DIRECTORY)
         IN  IF ~ParentExists(made, output_path)
             THEN [ret |-> Raise(IF ext = ".csv" THEN "OSError" ELSE "FileNotFoundError"),
                   disk |-> made]
             ELSE [ret |-> output_path, disk |-> WriteFile(made, output_path, content)]

(* lines 221-254 *)
export_to_csv(d, filename, files) == Write(d, filename, ".csv", CsvText(d), files)

(* lines 256-299: objs are the caller's records after the call *)
export_to_json(d, filename, files) ==
    [ret |-> Write(d, filename, ".json", JsonText(d), files).ret,
     disk |-> Write(d, filename, ".json", JsonText(d), files).disk,
     objs |-> [i \in 1..Len(d) |-> JsonStep(d[i]).item]]

----------------------------------------------------------------------------
(* The source adapters, as far as the lists they return go *)

(* what the provider does during one search: whether the client can be
   built, the payloads the provider would deliver, the exception raised while
   querying or iterating, if any, and the number of payloads delivered
   before it; a provider whose client cannot be built is asked nothing *)
Failures == {"TweepyException", "FlickrError", "ConnectionError", "RuntimeError"}

(* the exceptions a search of each provider may meet *)
TwitterFailures == {"TweepyException", "RuntimeError"}
FlickrFailures == {"FlickrError", "RuntimeError"}
WikipediaFailures == {"ConnectionError", "RuntimeError"}

ProviderRuns(payloads, failures) ==
    {[auth |-> "raises", items |-> <<>>, failure |-> "none", after |-> 0]}
    \cup UNION {UNION {{[auth |-> "ok", items |-> l, failure |-> f, after |-> k] :
                          k \in IF f = "none" THEN {Len(l)} ELSE 0..Len(l)} :
                      f \in {"none"} \cup failures} :
               l \in UNION {[1..n -> payloads] : n \in 0..MaxLen}}

(* what went wrong in a provider run *)
FailureOf(env) == IF env.auth = "raises" THEN "authentication" ELSE env.failure

(* isinstance(e, class) for the classes the handlers name *)
IsInstance(e, class) == class = "Exception" \/ e = class

(* authenticate(): None when building the client raises *)
authenticate(env) == IF env.auth = "raises" THEN None ELSE Str(<<"api">>)

(* results = []; try: ... results.append(...) ... except <caught>: print;
   return results *)
SearchLoop(env, caught) ==
    IF env.failure = "none" THEN List(env.items)
    ELSE IF IsInstance(env.failure, caught) THEN List(SubSeq(env.items, 1, env.after))
    ELSE Raise(env.failure)

(* twitter.search_by_location and twitter.search_by_keyword *)
twitter_search(env) ==
    IF ~Truthy(authenticate(env)) THEN List(<<>>) ELSE SearchLoop(env, "TweepyException")

(* flickr.search_by_location and flickr.search_by_keyword *)
flickr_search(env) ==
    IF ~Truthy(authenticate(env)) THEN List(<<>>) ELSE SearchLoop(env, "Exception")

(* wikipedia.get_nearby_articles, lines 12-76: env.items are the articles
   the provider reports, each as the article_data of lines 57-66 *)
get_nearby_articles(env) == SearchLoop(env, "Exception")

(* lines 178-189: the article_data search_articles builds of an article: the
   snippet of the search, the coordinates and the extract, no distance *)
SearchRecord(article) ==
    Dict([k \in RecordKeys |->
            CASE k = "distance" -> Absent
              [] k = "snippet" -> Str(<<"s">>)
              [] OTHER -> article.v[k]])

RECURSIVE SearchArticlesLoop(_, _, _)
(* lines 177-190, from the i-th article on: an article is kept when it has
   both coordinates *)
SearchArticlesLoop(articles, i, found) ==
    IF i > Len(articles) THEN found
    ELSE LET geo_data == articles[i]
         IN  SearchArticlesLoop(articles, i + 1,
                                IF ~IsNone(Get(geo_data, "latitude", None))
                                   /\ ~IsNone(Get(geo_data, "longitude", None))
                                THEN Append(found, SearchRecord(articles[i])) ELSE found)

(* wikipedia.search_articles, lines 139-198 *)
search_articles(env) ==
    IF env.failure = "none" THEN List(SearchArticlesLoop(env.items, 1, <<>>))
    ELSE IF IsInstance(env.failure, "Exception")
    THEN List(SearchArticlesLoop(SubSeq(env.items, 1, env.after), 1, <<>>))
    ELSE Raise(env.failure)

----------------------------------------------------------------------------
(* collect_data and output_results *)

AllSources ==
    <<"twitter", "flickr", "youtube", "wikipedia", "vk", "instagram", "trendsmap", "pastvu",
      "painted_planet">>

DefaultSources == <<"twitter", "flickr", "wikipedia">>

(* the source flags a command line of the model may set, besides --all *)
Flags == {"twitter", "flickr", "youtube", "wikipedia"}

RECURSIVE Flagged(_, _)
(* lines 109-126: the names whose flag is set, in the order of the tests *)
Flagged(names, flags) ==
    IF names = <<>> THEN <<>>
    ELSE IF Head(names) \in flags THEN <<Head(names)>> \o Flagged(Tail(names), flags)
    ELSE Flagged(Tail(names), flags)

(* lines 104-130 *)
SelectedSources(all, flags) ==
    LET chosen == IF all THEN AllSources ELSE Flagged(AllSources, flags)
    IN  IF chosen = <<>> THEN DefaultSources ELSE chosen

(* datetime.now() during the run, in hours since 2023-12-31 00:00 *)
Now == 58

(* main.py lines 73-96: the bounds made of --days, --start-date and
   --end-date, both offset-naive; a text that is no date ends the program *)
process_date_args(options) ==
    LET start_date == IF Truthy(options.start_date)
                      THEN strptime(options.start_date, "%Y-%m-%d")
                      ELSE IF options.days # 0 THEN Datetime(Now - 24 * options.days, FALSE)
                      ELSE None
        end_date == IF Truthy(options.end_date)
                    THEN strptime(options.end_date, "%Y-%m-%d")
                    ELSE Datetime(Now, FALSE)
    IN  IF IsRaise(start_date) \/ IsRaise(end_date) THEN Raise("SystemExit")
        ELSE <<start_date, end_date>>

(* the date options a command line of the model may carry *)
DateOptions ==
    {[days |-> 1, start_date |-> None, end_date |-> None],
     [days |-> 0, start_date |-> None, end_date |-> None],
     [days |-> 1, start_date |-> Str(<<PlainDay>>), end_date |-> None],
     [days |-> 0, start_date |-> Str(<<PlainDay>>), end_date |-> Str(<<PlainDay>>)]}

(* a command line: the mode with --lat and --lon or with --query (None where
   the mode has no such option), the date options, --output, --heatmap and
   --output-file (None when it is not given), and the start_date and end_date
   collect_data makes of the date options at line 101 *)
CommandLine(mode, lat, lon, query, o, output, heatmap, output_file) ==
    [mode |-> mode, lat |-> lat, lon |-> lon, query |-> query, options |-> o,
     output |-> output, heatmap |-> heatmap, output_file |-> output_file,
     start_date |-> process_date_args(o)[1], end_date |-> process_date_args(o)[2]]

(* the command lines of the model: both modes with every date option and the
   defaults --output all, no heat map and no --output-file, and with a start
   date the other values of --output, one with --heatmap, and the values of
   --output-file: /tmp/out, sub/out.txt and out.txt *)
CommandLines ==
    {CommandLine("coordinates", Num(0), Num(0), None, o, "all", FALSE, None) : o \in DateOptions}
    \cup {CommandLine("keyword", None, None, Str(<<"a">>), o, "all", FALSE, None) :
             o \in DateOptions}
    \cup {CommandLine("coordinates", Num(0), Num(0), None,
                      [days |-> 1, start_date |-> Str(<<PlainDay>>), end_date |-> None],
                      f[1], f[2], f[3]) :
             f \in {<<"json", FALSE, None>>, <<"csv", FALSE, None>>, <<"map", TRUE, None>>,
                    <<"all", FALSE, Str(<<"/", "tmp", "/", "out">>)>>,
                    <<"csv", FALSE, Str(<<"sub", "/", "out", ".", "txt">>)>>,
                    <<"json", FALSE, Str(<<"out", ".", "txt">>)>>}}

(* (datetime.now() - start_date).days, lines 146, 152, 170 and 176 *)
SinceDays(start_date) ==
    IF start_date.t = "datetime" THEN Num((Now - start_date.v) \div 24) ELSE Raise("TypeError")

(* start_date.strftime('%Y-%m-%d'), line 217 *)
strftime(x) ==
    IF x.t = "datetime" THEN Str(<<"day", ToString(x.v \div 24)>>) ELSE Raise("AttributeError")

TwitterPayloads ==
    {RawOf([geo |-> Sub(GeoKeys, "coordinates", List(<<Num(0), Num(2)>>)),
            user |-> Sub(UserKeys, "screen_name", Str(<<"B">>)), text |-> Str(<<"a">>),
            created_at |-> Str(<<NativeDate>>)]),
     RawOf([user |-> Sub(UserKeys, "screen_name", Str(<<"B">>)), text |-> Str(<<"a">>)]),
     RawOf([user |-> None])}

FlickrPayloads ==
    {RawOf([latitude |-> Str(<<"0">>), longitude |-> Str(<<"0">>), title |-> Str(<<"a">>),
            date_taken |-> Str(<<PlainAfter>>)]),
     RawOf([title |-> Str(<<"a">>), date_taken |-> Str(<<PlainAt>>)]),
     RawOf([latitude |-> Str(<<"1">>), longitude |-> Str(<<"1">>), description |-> Str(<<"b">>),
            date_taken |-> Str(<<PlainAt>>)])}

(* the articles the provider reports *)
WikipediaPayloads ==
    {WikipediaRecord(Num(0), Num(1), Str(<<"b">>), Str(<<>>), Str(<<>>)),
     WikipediaRecord(None, None, Str(<<>>), Str(<<>>), Str(<<>>))}

RECURSIVE NormalizeLoop(_, _, _, _)

(* lines 158-160 and 182-184, n being what normalize_data made of the i-th
   item *)
NormalizeStep(items, i, src, normalized_data, n) ==
    IF IsRaise(n) THEN n
    ELSE NormalizeLoop(items, i + 1, src,
                       IF ~IsNone(n.v["latitude"]) /\ ~IsNone(n.v["longitude"])
                       THEN Append(normalized_data, n) ELSE normalized_data)

(* lines 156-160 and 180-184 *)
NormalizeLoop(items, i, src, normalized_data) ==
    IF i > Len(items) THEN List(normalized_data)
    ELSE NormalizeStep(items, i, src, normalized_data, normalize_data(items[i], src))

(* lines 203-206 *)
StampLoop(items) ==
    List([i \in 1..Len(items) |-> SetKey(items[i], "source", Str(<<"wikipedia">>))])

(* what collect_data makes of the list an adapter returned *)
Processed(src, answer) ==
    IF IsRaise(answer) THEN answer
    ELSE IF src = "wikipedia" THEN StampLoop(answer.v)
    ELSE NormalizeLoop(answer.v, 1, src, <<>>)

(* a turn that puts the records of the source before those gathered so far *)
GatherInFront(src, answer, processed, failure) ==
    /\ source' = src
    /\ call' = [op |-> "search", args |-> <<src, failure>>]
    /\ raw_data' = IF src = "wikipedia" /\ ~IsRaise(processed) THEN processed ELSE answer
    /\ IF IsRaise(processed)
       THEN /\ run' = "terminated"
            /\ result' = processed
            /\ UNCHANGED <<sources, results, data, alias>>
       ELSE /\ results' = Append(results, <<src, processed>>)
            /\ data' = processed.v \o data
            /\ alias' = [alias EXCEPT !.data =
                            [j \in 1..Len(processed.v) |-> <<Len(results) + 1, j>>] \o @]
            /\ sources' = Tail(sources)
            /\ UNCHANGED <<run, result>>
    /\ UNCHANGED <<raw, normalized, before, args, disk>>

(* one turn of the loop of lines 138-211 for a source that has an adapter:
   an exception that leaves the adapter or normalize_data ends the run;
   results[source] and combined_results hold the same dicts *)
Gather(src, answer, processed, failure) ==
    /\ source' = src
    /\ call' = [op |-> "search", args |-> <<src, failure>>]
    /\ raw_data' = IF src = "wikipedia" /\ ~IsRaise(processed) THEN processed ELSE answer
    /\ IF IsRaise(processed)
       THEN /\ run' = "terminated"
            /\ result' = processed
            /\ UNCHANGED <<sources, results, data, alias>>
       ELSE /\ results' = Append(results, <<src, processed>>)
            /\ data' = data \o processed.v
            /\ alias' = [alias EXCEPT !.data =
                            @ \o [j \in 1..Len(processed.v) |-> <<Len(results) + 1, j>>]]
            /\ sources' = Tail(sources)
            /\ UNCHANGED <<run, result>>
    /\ UNCHANGED <<raw, normalized, before, args, disk>>

(* an exception raised in collect_data before the adapter of src is called *)
Abort(src, exception) ==
    /\ source' = src
    /\ call' = [op |-> "since_days", args |-> <<src>>]
    /\ run' = "terminated"
    /\ result' = exception
    /\ UNCHANGED <<raw, normalized, data, before, args, sources, results, raw_data, disk, alias>>

InitCollect ==
    /\ raw = Dict(EmptyRaw)
    /\ source = "none"
    /\ normalized = Absent
    /\ data = <<>>
    /\ before = <<>>
    /\ call = NoCall
    /\ result = Absent
    /\ args \in CommandLines
    /\ sources \in {SelectedSources(a, f) : a \in BOOLEAN, f \in SUBSET Flags}
    /\ results = <<>>
    /\ raw_data = Absent
    /\ run = "collecting"
    /\ disk = NoFiles
    /\ alias = NoAlias

(* lines 141-163 *)
CollectTwitter ==
    /\ run = "collecting" /\ sources # <<>> /\ Head(sources) = "twitter"
    /\ IF IsRaise(SinceDays(args.start_date)) THEN Abort("twitter", SinceDays(args.start_date))
       ELSE \E env \in ProviderRuns(TwitterPayloads, TwitterFailures) :
               Gather("twitter", twitter_search(env), Processed("twitter", twitter_search(env)),
                      FailureOf(env))

(* lines 165-187 *)
CollectFlickr ==
    /\ run = "collecting" /\ sources # <<>> /\ Head(sources) = "flickr"
    /\ IF IsRaise(SinceDays(args.start_date)) THEN Abort("flickr", SinceDays(args.start_date))
       ELSE \E env \in ProviderRuns(FlickrPayloads, FlickrFailures) :
               Gather("flickr", flickr_search(env), Processed("flickr", flickr_search(env)),
                      FailureOf(env))

(* lines 189-209: get_nearby_articles in coordinates mode, search_articles
   in keyword mode *)
CollectWikipedia ==
    /\ run = "collecting" /\ sources # <<>> /\ Head(sources) = "wikipedia"
    /\ \E env \in {e \in ProviderRuns(WikipediaPayloads, WikipediaFailures) : e.auth = "ok"} :
          IF args.mode = "coordinates"
          THEN Gather("wikipedia", get_nearby_articles(env),
                      Processed("wikipedia", get_nearby_articles(env)), FailureOf(env))
          ELSE Gather("wikipedia", search_articles(env),
                      Processed("wikipedia", search_articles(env)), FailureOf(env))

(* line 211: a source without a branch is passed over *)
CollectUnimplemented ==
    /\ run = "collecting" /\ sources # <<>>
    /\ Head(sources) \notin {"twitter", "flickr", "wikipedia"}
    /\ source' = Head(sources)
    /\ sources' = Tail(sources)
    /\ UNCHANGED <<raw, normalized, data, before, call, result, args, results, raw_data, run, disk, alias>>

(* lines 213-226: combined_results becomes the list the filters return,
   which holds the dicts they kept *)
ApplyFilters ==
    /\ run = "collecting" /\ sources = <<>>
    /\ LET bounded == Truthy(args.start_date) \/ Truthy(args.end_date)
           keyed == args.mode = "keyword" /\ Truthy(args.query)
           dated == IF bounded
                    THEN IF IsRaise(strftime(args.start_date)) THEN strftime(args.start_date)
                         ELSE filter_by_date(data, args.start_date, args.end_date)
                    ELSE List(data)
           found == IF IsRaise(dated) THEN dated
                    ELSE IF keyed THEN filter_by_keyword(dated.v, <<args.query>>)
                    ELSE dated
           dated_at == IF bounded
                       THEN Pick(alias.data,
                                 Kept([i \in 1..Len(data) |->
                                          filter_by_date(<<data[i]>>, args.start_date,
                                                         args.end_date)]))
                       ELSE alias.data
           found_at == IF keyed
                       THEN Pick(dated_at,
                                 Kept([i \in 1..Len(dated.v) |->
                                          filter_by_keyword(<<dated.v[i]>>, <<args.query>>)]))
                       ELSE dated_at
       IN  IF IsRaise(found)
           THEN run' = "terminated" /\ result' = found /\ UNCHANGED <<data, alias>>
           ELSE /\ run' = "returned" /\ data' = found.v /\ UNCHANGED result
                /\ alias' = [alias EXCEPT !.data = found_at]
    /\ call' = [op |-> "filters", args |-> <<>>]
    /\ UNCHANGED <<raw, source, normalized, before, args, sources, results, raw_data, disk>>

(* config.MAP_DEFAULT_LOCATION *)
MAP_DEFAULT_LOCATION == <<Num(0), Num(0)>>

(* mapping.py lines 13-44: the map, of which the model keeps the center, the
   markers and the points of the heat layer; folium.Map takes a location of
   two values that float() converts, and rejects any other *)
create_base_map(center) ==
    LET location == IF IsNone(center) THEN MAP_DEFAULT_LOCATION ELSE center.v
    IN  IF IsRaise(Float(location[1])) \/ IsRaise(Float(location[2])) THEN Raise("ValueError")
        ELSE [t |-> "map", location |-> <<Float(location[1]), Float(location[2])>>,
              markers |-> <<>>, heat |-> <<>>]

(* mapping.py lines 78-97: the text of the popup of a point *)
PopupHtml(point) ==
    <<"<b>Source:</b> ">> \o Format(Get(point, "source", Str(<<"Unknown">>))) \o <<"<br>">>
    \o (IF HasKey(point, "title")
        THEN <<"<b>Title:</b> ">> \o Format(point.v["title"]) \o <<"<br>">> ELSE <<>>)
    \o (IF HasKey(point, "content") /\ Truthy(point.v["content"])
        THEN <<"<b>Content:</b> ">> \o Format(point.v["content"]) \o <<"<br>">> ELSE <<>>)
    \o (IF HasKey(point, "date")
        THEN <<"<b>Date:</b> ">> \o Format(point.v["date"]) \o <<"<br>">> ELSE <<>>)
    \o (IF HasKey(point, "url")
        THEN <<"<b><a href='">> \o Format(point.v["url"])
             \o <<"' target='_blank'>Open Original</a></b><br>">> ELSE <<>>)
    \o (IF HasKey(point, "image_url") /\ Truthy(point.v["image_url"])
        THEN <<"<img src='">> \o Format(point.v["image_url"]) \o <<"' width='200px'><br>">>
        ELSE <<>>)

RECURSIVE MarkersLoop(_, _, _)
(* mapping.py lines 66-111, from the i-th point on: a point without the two
   keys or off the globe is passed over, a coordinate that is no number
   raises in the comparison of line 74, a content that is true and has no
   length in len(content) (line 85; no text of the model is longer than the
   200 characters of the cut), a source that is no text in source.lower()
   (line 176).  The tooltip is the title, or the source (by default
   'Unknown') followed by ' Data'; the icon is looked up under the source,
   by default 'unknown' *)
MarkersLoop(base_map, d, i) ==
    IF i > Len(d) THEN base_map
    ELSE LET point == d[i]
             lat == point.v["latitude"]
             lon == point.v["longitude"]
             tag == Get(point, "source", Str(<<"unknown">>))
         IN  IF ~HasKey(point, "latitude") \/ ~HasKey(point, "longitude")
             THEN MarkersLoop(base_map, d, i + 1)
             ELSE IF ~IsNum(lat) THEN Raise("TypeError")
             ELSE IF lat.v < -180 \/ lat.v > 180 THEN MarkersLoop(base_map, d, i + 1)
             ELSE IF ~IsNum(lon) THEN Raise("TypeError")
             ELSE IF lon.v < -360 \/ lon.v > 360 THEN MarkersLoop(base_map, d, i + 1)
             ELSE IF /\ HasKey(point, "content") /\ Truthy(point.v["content"])
                     /\ point.v["content"].t \notin {"str", "list", "dict"}
             THEN Raise("TypeError")
             ELSE IF ~IsStr(tag) THEN Raise("AttributeError")
             ELSE MarkersLoop([base_map EXCEPT !.markers =
                                  Append(@, [location |-> <<lat, lon>>,
                                             popup |-> PopupHtml(point),
                                             tooltip |-> Get(point, "title",
                                                             Str(Format(Get(point, "source", Str(<<"Unknown">>)))
                                                                 \o <<" Data">>))])],
                              d, i + 1)

(* mapping.py lines 46-113 *)
add_markers_to_map(base_map, d) ==
    IF IsRaise(base_map) THEN base_map
    ELSE IF d = <<>> THEN base_map
    ELSE MarkersLoop(base_map, d, 1)

RECURSIVE HeatLoop(_, _, _)
(* mapping.py lines 131-144, from the i-th point on: heat_data, or the
   exception of the comparison of line 137; no record has a weight *)
HeatLoop(d, i, heat_data) ==
    IF i > Len(d) THEN List(heat_data)
    ELSE LET point == d[i]
             lat == point.v["latitude"]
             lon == point.v["longitude"]
         IN  IF ~HasKey(point, "latitude") \/ ~HasKey(point, "longitude")
             THEN HeatLoop(d, i + 1, heat_data)
             ELSE IF ~IsNum(lat) THEN Raise("TypeError")
             ELSE IF lat.v < -180 \/ lat.v > 180 THEN HeatLoop(d, i + 1, heat_data)
             ELSE IF ~IsNum(lon) THEN Raise("TypeError")
             ELSE IF lon.v < -360 \/ lon.v > 360 THEN HeatLoop(d, i + 1, heat_data)
             ELSE HeatLoop(d, i + 1, Append(heat_data, <<lat, lon, Num(1)>>))

(* mapping.py lines 115-152 *)
add_heatmap(base_map, d) ==
    IF IsRaise(base_map) THEN base_map
    ELSE IF d = <<>> THEN base_map
    ELSE IF IsRaise(HeatLoop(d, 1, <<>>)) THEN HeatLoop(d, 1, <<>>)
    ELSE [base_map EXCEPT !.heat = HeatLoop(d, 1, <<>>).v]

(* mapping.py lines 178-199: ret is the path returned, disk the directories
   and files after the call; base_map.save opens the path after the output
   directory was made *)
save_map(base_map, filename, files) ==
    LET name == IF IsNone(filename) THEN Str(<<"pegasus_map_", "timestamp", ".html">>)
                ELSE filename
        output_path == Join(DEFAULT_OUTPUT_DIRECTORY, name)
        made == MakeDirs(files, DEFAULT_OUTPUT_DIRECTORY)
    IN  IF ~ParentExists(made, output_path)
        THEN [ret |-> Raise("FileNotFoundError"), disk |-> made]
        ELSE [ret |-> output_path, disk |-> WriteFile(made, output_path, base_map)]

(* main.py lines 230-238 followed by the extension of lines 262, 269 and
   276: the name of the file of one output, made of --output-file cut at its
   first '.' (in its text every '.' is a token of its own) or of the time
   of the run *)
OutputFileName(a, ext) ==
    LET given == a.output_file.v
        dots == {i \in 1..Len(given) : given[i] = "."}
        base_filename == IF Truthy(a.output_file)
                         THEN IF dots # {}
                              THEN SubSeq(given, 1, (CHOOSE i \in dots : \A j \in dots : i <= j) - 1)
                              ELSE given
                         ELSE <<"pegasus_data_", "timestamp">>
    IN  Str(base_filename \o <<ext>>)

(* main.py lines 240-264 for --output map and --output all: the map is
   centred, marked (in clusters, the default that no option unsets) and
   saved before any export; an exception of output_results ends the program
   (the run is then "failed") *)
OutputMap ==
    /\ run = "returned" /\ args.output \in {"map", "all"}
    /\ LET center == IF args.mode = "coordinates" THEN List(<<args.lat, args.lon>>)
                     ELSE IF data # <<>>
                     THEN List(<<Get(data[1], "latitude", Num(0)),
                                 Get(data[1], "longitude", Num(0))>>)
                     ELSE None
           marked == add_markers_to_map(create_base_map(center), data)
           m == IF args.heatmap THEN add_heatmap(marked, data) ELSE marked
           saved == save_map(m, OutputFileName(args, ".html"), disk)
       IN  IF IsRaise(m)
           THEN run' = "failed" /\ result' = m /\ UNCHANGED disk
           ELSE /\ run' = IF IsRaise(saved.ret) THEN "failed" ELSE "map"
                /\ result' = saved.ret /\ disk' = saved.disk
    /\ call' = [op |-> "save_map", args |-> <<OutputFileName(args, ".html")>>]
    /\ before' = data
    /\ UNCHANGED <<raw, source, normalized, data, args, sources, results, raw_data, alias>>

(* main.py lines 267-271 for --output csv and --output all *)
OutputCsv ==
    /\ \/ run = "returned" /\ args.output = "csv"
       \/ run = "map" /\ args.output = "all"
    /\ call' = [op |-> "export_to_csv", args |-> <<OutputFileName(args, ".csv")>>]
    /\ result' = export_to_csv(data, OutputFileName(args, ".csv"), disk).ret
    /\ disk' = export_to_csv(data, OutputFileName(args, ".csv"), disk).disk
    /\ before' = data
    /\ run' = IF IsRaise(export_to_csv(data, OutputFileName(args, ".csv"), disk).ret)
              THEN "failed" ELSE "csv"
    /\ UNCHANGED <<raw, source, normalized, data, args, sources, results, raw_data, alias>>

(* main.py lines 274-278 for --output json and --output all *)
OutputJson ==
    /\ \/ run = "returned" /\ args.output = "json"
       \/ run = "csv" /\ args.output = "all"
    /\ call' = [op |-> "export_to_json", args |-> <<OutputFileName(args, ".json")>>]
    /\ result' = export_to_json(data, OutputFileName(args, ".json"), disk).ret
    /\ disk' = export_to_json(data, OutputFileName(args, ".json"), disk).disk
    /\ data' = export_to_json(data, OutputFileName(args, ".json"), disk).objs
    /\ before' = data
    /\ run' = IF IsRaise(export_to_json(data, OutputFileName(args, ".json"), disk).ret)
              THEN "failed" ELSE "json"
    /\ UNCHANGED <<raw, source, normalized, args, sources, results, raw_data, alias>>

NextCollect ==
    \/ CollectTwitter
    \/ CollectFlickr
    \/ CollectWikipedia
    \/ CollectUnimplemented
    \/ ApplyFilters
    \/ OutputMap
    \/ OutputCsv
    \/ OutputJson

SpecCollect == InitCollect /\ [][NextCollect]_vars

----------------------------------------------------------------------------
(* The exporters applied to collections of canonical records *)

(* records as normalize_data, filter_by_coordinates and the wikipedia branch
   of collect_data leave them, and one whose date a caller has parsed *)
ExportRecords ==
    {normalize_data(RawOf([user |-> Sub(UserKeys, "screen_name", Str(<<"B">>)),
                           text |-> Str(<<"a">>), created_at |-> Str(<<NativeDate>>)]), "twitter"),
     normalize_data(RawOf([latitude |-> Str(<<"0">>), longitude |-> Str(<<"0.5">>),
                           title |-> Str(<<"a">>)]), "flickr"),
     SetKey(normalize_data(RawOf([latitude |-> Str(<<"1">>), longitude |-> Str(<<"1">>),
                                  date_taken |-> Str(<<PlainAt>>)]), "flickr"),
            "distance", Num(78451)),
     SetKey(normalize_data(RawOf([title |-> Str(<<"b">>)]), "youtube"),
            "date", Datetime(58, FALSE)),
     StampLoop(<<WikipediaRecord(Num(0), Num(1), Str(<<"b">>), Str(<<>>), Str(<<>>))>>).v[1],
     StampLoop(<<WikipediaRecord(None, None, Str(<<>>), Str(<<>>), Str(<<"img">>))>>).v[1]}

(* the file names a caller may pass: none, a name with no directory, an
   absolute one and one in a directory that is not there *)
FileNames(ext) ==
    {None, Str(<<"out", ext>>), Str(<<"/", "tmp", "/", "out", ext>>),
     Str(<<"sub", "/", "out", ext>>)}

(* a caller holds a list of at most MaxLen records; the output directory may
   be there already *)
InitExport ==
    /\ raw = Dict(EmptyRaw)
    /\ source = "none"
    /\ normalized = Absent
    /\ data \in UNION {[1..n -> ExportRecords] : n \in 0..MaxLen}
    /\ before = <<>>
    /\ call = NoCall
    /\ result = Absent
    /\ args = NoArgs
    /\ sources = <<>>
    /\ results = <<>>
    /\ raw_data = Absent
    /\ run = "idle"
    /\ disk \in {NoFiles, MakeDirs(NoFiles, DEFAULT_OUTPUT_DIRECTORY)}
    /\ alias = [data |-> Unshared(data), result |-> <<>>]

(* export_to_csv called on the list, before or after the other exporter *)
ExportCsv ==
    /\ args = NoArgs /\ run \in {"idle", "json"}
    /\ \E filename \in FileNames(".csv") :
        /\ call' = [op |-> "export_to_csv", args |-> <<filename>>]
        /\ result' = export_to_csv(data, filename, disk).ret
        /\ disk' = export_to_csv(data, filename, disk).disk
    /\ before' = data
    /\ run' = IF run = "idle" THEN "csv" ELSE "done"
    /\ UNCHANGED <<raw, source, normalized, data, args, sources, results, raw_data, alias>>

(* export_to_json called on the list, before or after the other exporter *)
ExportJson ==
    /\ args = NoArgs /\ run \in {"idle", "csv"}
    /\ \E filename \in FileNames(".json") :
        /\ call' = [op |-> "export_to_json", args |-> <<filename>>]
        /\ result' = export_to_json(data, filename, disk).ret
        /\ disk' = export_to_json(data, filename, disk).disk
        /\ data' = export_to_json(data, filename, disk).objs
    /\ before' = data
    /\ run' = IF run = "idle" THEN "json" ELSE "done"
    /\ UNCHANGED <<raw, source, normalized, args, sources, results, raw_data, alias>>

NextExport == ExportCsv \/ ExportJson

SpecExport == InitExport /\ [][NextExport]_vars

----------------------------------------------------------------------------
(* Properties of normalize_data, under Spec *)

Called == normalized.t # "absent"
Returned == normalized.t = "dict"

(* C1: normalize_data is total: for every raw mapping and every source tag in
   {twitter, youtube, flickr} it returns a canonical record and never
   raises. *)
NormalizeIsTotal ==
    (Called /\ source \in KnownSources) => Returned

(* C2: every record normalize_data returns has latitude and longitude either
   both present or both None. *)
CoordinatesBothOrNeither ==
    Returned => (IsNone(normalized.v["latitude"]) <=> IsNone(normalized.v["longitude"]))

(* x is a dict in which key k is present *)
DictWith(x, k) == x.t = "dict" /\ x.v[k].t # "absent"

(* an expected geo key of the source is missing from the raw record *)
GeoKeyMissing(d, src) ==
    CASE src = "twitter" ->
            ~DictWith(d.v["geo"], "coordinates") /\ ~DictWith(d.v["place"], "bounding_box")
      [] src = "youtube" ->
            \/ d.v["location"].t = "absent"
            \/ /\ d.v["location"].t = "dict"
               /\ ~(DictWith(d.v["location"], "latitude") /\ DictWith(d.v["location"], "longitude"))
      [] src = "flickr" -> d.v["latitude"].t = "absent" \/ d.v["longitude"].t = "absent"
      [] OTHER -> FALSE

(* C3: for every raw record of a known source in which an expected geo key
   is missing, normalize_data returns a record whose latitude and longitude
   are both None. *)
MissingGeoGivesNoCoordinates ==
    (Called /\ source \in KnownSources /\ GeoKeyMissing(raw, source)) =>
        /\ Returned
        /\ IsNone(normalized.v["latitude"])
        /\ IsNone(normalized.v["longitude"])

----------------------------------------------------------------------------
(* Properties of the filters, under SpecFilter *)

HasBoth(point) == IsNum(point.v["latitude"]) /\ IsNum(point.v["longitude"])
HasNeither(point) == IsNone(point.v["latitude"]) /\ IsNone(point.v["longitude"])

Occurs(x, seq) == \E j \in 1..Len(seq) : seq[j] = x

(* C4: filter_by_coordinates drops every record that lacks coordinates,
   without raising: over a list whose records have both coordinates or have
   latitude = None and longitude = None, the call returns a list and no
   record of it lacks coordinates. *)
RecordsWithoutCoordinatesAreDropped ==
    (/\ call.op = "filter_by_coordinates"
     /\ \A i \in 1..Len(before) : HasBoth(before[i]) \/ HasNeither(before[i])) =>
        /\ result.t = "list"
        /\ \A j \in 1..Len(result.v) : HasBoth(result.v[j])

(* C5: every record that has both coordinates is kept if and only if its
   distance from the center is <= radius_km, a kept record carries that
   distance in 'distance', and a rejected record gets no distance attached. *)
CoordinateFilterKeepsWithinRadius ==
    call.op = "filter_by_coordinates" =>
        \A i \in 1..Len(before) : HasBoth(before[i]) =>
            LET d == geodesic(<<Num(call.args[1]), Num(call.args[2])>>,
                              <<before[i].v["latitude"], before[i].v["longitude"]>>)
                kept == Dict([before[i].v EXCEPT !["distance"] = d])
            IN  IF d.v <= call.args[3]
                THEN result.t = "list" /\ Occurs(kept, result.v) /\ data[i] = kept
                ELSE (result.t = "list" => ~Occurs(kept, result.v)) /\ data[i] = before[i]

(* the point in time a record's date stands for, None when it has none *)
PointInTime(point) ==
    IF ~HasKey(point, "date") THEN None
    ELSE IF point.v["date"].t = "datetime" THEN point.v["date"]
    ELSE IF IsStr(point.v["date"]) /\ TryFormats(point.v["date"], DateFormats, 1).t = "datetime"
         THEN TryFormats(point.v["date"], DateFormats, 1)
    ELSE None

InDateRange(point, start_date, end_date) ==
    /\ PointInTime(point).t = "datetime"
    /\ IsNone(start_date) \/ PointInTime(point).v >= start_date.v
    /\ IsNone(end_date) \/ PointInTime(point).v <= end_date.v

(* C6: with at least one bound set, filter_by_date keeps a record if and only
   if its date parses to a point in time that is >= start (when set) and
   <= end (when set); the result is exactly those records, in order. *)
DateFilterKeepsInRange ==
    (call.op = "filter_by_date" /\ ~(IsNone(call.args[1]) /\ IsNone(call.args[2]))) =>
        /\ result.t = "list"
        /\ result.v = SelectSeq(before, LAMBDA p : InDateRange(p, call.args[1], call.args[2]))

(* C7: filter_by_date never aborts because of one record's date: for every
   list of records and every pair of bounds the call returns a list. *)
DateFilterNeverRaises ==
    call.op = "filter_by_date" => result.t = "list"

(* C8: with start_date and end_date both unset, filter_by_date returns its
   input: the same records in the same order, none dropped. *)
DateFilterIdentityWhenUnbounded ==
    (call.op = "filter_by_date" /\ IsNone(call.args[1]) /\ IsNone(call.args[2])) =>
        /\ result = List(before)
        /\ data = before

(* an unbounded call over a list holding a record without a date and a
   record whose date matches no format *)
UnboundedDateFilterOverBadDates ==
    /\ call.op = "filter_by_date"
    /\ IsNone(call.args[1]) /\ IsNone(call.args[2])
    /\ \E i \in 1..Len(before) : IsNone(before[i].v["date"])
    /\ \E i \in 1..Len(before) : before[i].v["date"] = Str(<<BadDate>>)
    /\ result.t = "list" /\ Len(result.v) = Len(before)

IsText(point) == IsStr(point.v["title"]) /\ IsStr(point.v["content"])

(* the lower-cased title immediately followed by the lower-cased content *)
PlainConcatenation(point) == Lower(point.v["title"]).v \o Lower(point.v["content"]).v

MatchesPlain(point, keywords) ==
    \E j \in 1..Len(keywords) : Contains(PlainConcatenation(point), Lower(keywords[j]).v)

(* C9: filter_by_keyword keeps a record if and only if the lower-cased
   concatenation of its title and content, nothing inserted between them,
   contains at least one lower-cased keyword; an empty keyword list makes it
   the identity.  Stated over lists whose titles and contents are all text. *)
KeywordFilterMatchesPlainConcatenation ==
    (call.op = "filter_by_keyword" /\ \A i \in 1..Len(before) : IsText(before[i])) =>
        /\ result.t = "list"
        /\ result.v = IF call.args[1] = <<>> THEN before
                      ELSE SelectSeq(before, LAMBDA p : MatchesPlain(p, call.args[1]))

Operations == {"filter_by_coordinates", "filter_by_date", "filter_by_keyword"}

(* one filter applied to the outcome of the filters before it *)
ApplyFilter(op, x, c, r, s, e, k) ==
    IF IsRaise(x) THEN x
    ELSE CASE op = "filter_by_coordinates" -> filter_by_coordinates(x.v, c[1], c[2], r).ret
           [] op = "filter_by_date" -> filter_by_date(x.v, s, e)
           [] op = "filter_by_keyword" -> filter_by_keyword(x.v, k)

RECURSIVE Pipeline(_, _, _, _, _, _, _)
(* the filters applied in the given order *)
Pipeline(order, x, c, r, s, e, k) ==
    IF order = <<>> THEN x
    ELSE Pipeline(Tail(order), ApplyFilter(Head(order), x, c, r, s, e, k), c, r, s, e, k)

(* the orders in which two or three different filters can be applied *)
Orders ==
    {o \in UNION {[1..n -> Operations] : n \in 2..3} :
        \A i, j \in DOMAIN o : i # j => o[i] # o[j]}

(* C10: the three filters commute: for every record list and fixed filter
   arguments, applying them (all three, or any two) in any order yields the
   same final records in the same order. *)
FiltersCommute ==
    call = NoCall =>
        \A c \in Centers, r \in Radii, s \in StartDates, e \in EndDates, k \in KeywordLists :
            \A o1, o2 \in Orders :
                {o1[i] : i \in DOMAIN o1} = {o2[i] : i \in DOMAIN o2} =>
                    Pipeline(o1, List(data), c, r, s, e, k) = Pipeline(o2, List(data), c, r, s, e, k)

RECURSIVE IsSubsequence(_, _)
(* s is t with some of its elements left out *)
IsSubsequence(s, t) ==
    IF s = <<>> THEN TRUE
    ELSE IF t = <<>> THEN FALSE
    ELSE IF Head(s) = Head(t) THEN IsSubsequence(Tail(s), Tail(t))
    ELSE IsSubsequence(s, Tail(t))

(* C22: each of filter_by_coordinates, filter_by_date and filter_by_keyword
   is order-preserving: for every input list the call returns a list that is
   a subsequence of the input (no record added, duplicated or reordered). *)
FiltersPreserveOrder ==
    call.op \in Operations =>
        /\ result.t = "list"
        /\ IsSubsequence(result.v, data)

IsPrefix(s, t) == Len(s) <= Len(t) /\ SubSeq(t, 1, Len(s)) = s

(* the date strings of the records of a bounded filter_by_date call *)
DateStrings ==
    IF call.op = "filter_by_date" /\ ~(IsNone(call.args[1]) /\ IsNone(call.args[2]))
    THEN {before[i].v["date"] :
             i \in {j \in 1..Len(before) : HasKey(before[j], "date") /\ Truthy(before[j].v["date"])}}
    ELSE {}

Parses(x, fmt) == ~IsRaise(strptime(x, fmt))

(* the formats are tried in the given order, the first that parses is the
   last one tried, and a string that none parses makes its record skipped
   without an exception *)
TriedInOrder(order) ==
    /\ \A x \in DateStrings :
          LET tried == FormatsTried(x, DateFormats, 1)
          IN  /\ IsPrefix(tried, order)
              /\ \A k \in 1..(Len(tried) - 1) : ~Parses(x, tried[k])
              /\ Len(tried) < Len(order) => Parses(x, tried[Len(tried)])
    /\ \A i \in 1..Len(before) :
          (/\ before[i].v["date"] \in DateStrings
           /\ \A k \in 1..Len(order) : ~Parses(before[i].v["date"], order[k])) =>
              /\ DateStep(before[i], call.args[1], call.args[2]) = Num(0)
              /\ result.t = "list" => ~Occurs(before[i], result.v)

(* C23 as stated: in filter_by_date a date string is attempted against the
   formats ISO-8601 with offset first, then 'YYYY-MM-DD HH:MM:SS', then the
   provider's native format; the first that parses wins and later ones are
   not tried; with all exhausted the record is dropped without an
   exception. *)
DateFormatsTriedIsoFirst ==
    TriedInOrder(<<"%Y-%m-%dT%H:%M:%S%z", "%Y-%m-%d %H:%M:%S", "%a %b %d %H:%M:%S %z %Y">>)

(* C23: in filter_by_date a date string is attempted against the formats
   'YYYY-MM-DD HH:MM:SS' first, then ISO-8601 with offset, then the
   provider's native format; the first that parses wins and later ones are
   not tried; with all exhausted the record is dropped without an
   exception. *)
DateFormatsTriedPlainFirst ==
    TriedInOrder(<<"%Y-%m-%d %H:%M:%S", "%Y-%m-%dT%H:%M:%S%z", "%a %b %d %H:%M:%S %z %Y">>)

(* a bounded call over a record whose date no format parses, dropped after
   three attempts, and a record kept on the first attempt *)
DateFilterOverUnparseableDate ==
    /\ call.op = "filter_by_date"
    /\ result.t = "list"
    /\ \E i \in 1..Len(before) :
          /\ before[i].v["date"] = Str(<<BadDate>>)
          /\ Len(FormatsTried(before[i].v["date"], DateFormats, 1)) = 3
          /\ ~Occurs(before[i], result.v)
    /\ \E i \in 1..Len(before) :
          /\ before[i].v["date"] \in DateStrings
          /\ Len(FormatsTried(before[i].v["date"], DateFormats, 1)) = 1
          /\ Occurs(before[i], result.v)

(* C25: filter_by_coordinates is idempotent: for every record list and fixed
   center and radius the call returns a list, and applying it to that list
   returns the same records in the same order with the same distances. *)
CoordinateFilterIsIdempotent ==
    call.op = "filter_by_coordinates" =>
        /\ result.t = "list"
        /\ filter_by_coordinates(result.v, call.args[1], call.args[2], call.args[3]).ret = result
        /\ filter_by_coordinates(result.v, call.args[1], call.args[2], call.args[3]).objs = result.v

(* the lower-cased text under k, empty when k is missing or None *)
TextOf(point, k) ==
    IF HasKey(point, k) /\ IsStr(point.v[k]) THEN Lower(point.v[k]).v ELSE <<>>

(* C26: filter_by_keyword never aborts because of one record: for every
   record list and non-empty keyword list the call returns a list, a record
   whose title or content is missing or None being matched as if that text
   were empty. *)
KeywordFilterToleratesMissingText ==
    (call.op = "filter_by_keyword" /\ call.args[1] # <<>>) =>
        /\ result.t = "list"
        /\ result.v =
              SelectSeq(before,
                        LAMBDA p : \E j \in 1..Len(call.args[1]) :
                            Contains(JoinText(TextOf(p, "title"), TextOf(p, "content")),
                                     Lower(call.args[1][j]).v))

----------------------------------------------------------------------------
(* Properties of merge_data_sources, under SpecMerge *)

(* the records of a source's entry, none for an entry that is None *)
RecordsOf(d) == IF d.t = "list" THEN d.v ELSE <<>>

RECURSIVE Concatenation(_)
(* the per-source lists one after the other, first source first *)
Concatenation(items) ==
    IF items = <<>> THEN <<>>
    ELSE RecordsOf(Head(items)[2]) \o Concatenation(Tail(items))

RECURSIVE SumOfLengths(_)
SumOfLengths(items) ==
    IF items = <<>> THEN 0
    ELSE Len(RecordsOf(Head(items)[2])) + SumOfLengths(Tail(items))

(* C11: merge_data_sources returns the concatenation of the per-source lists
   in source order and, within a source, in the source's own order: nothing
   is re-sorted or deduplicated, the length of the result is the sum of the
   lengths of the inputs, and the merge of a dict is the merge of its first
   sources followed by the merge of the remaining ones. *)
MergeIsConcatenation ==
    call.op = "merge_data_sources" =>
        /\ result = List(Concatenation(call.args[1]))
        /\ Len(result.v) = SumOfLengths(call.args[1])
        /\ \A k \in 0..Len(call.args[1]) :
              result.v = merge_data_sources(SubSeq(call.args[1], 1, k)).v
                         \o merge_data_sources(SubSeq(call.args[1], k + 1, Len(call.args[1]))).v

(* a merge of two sources that hold an equal record, one of them holding its
   records in an order no sort would give *)
MergedEqualRecordsOfTwoSources ==
    /\ call.op = "merge_data_sources"
    /\ Len(call.args[1]) >= 2
    /\ \E i, j \in 1..Len(call.args[1]) :
          /\ i < j
          /\ \E a \in 1..Len(RecordsOf(call.args[1][i][2])),
                b \in 1..Len(RecordsOf(call.args[1][j][2])) :
                call.args[1][i][2].v[a] = call.args[1][j][2].v[b]
    /\ \E i \in 1..Len(call.args[1]) :
          /\ Len(RecordsOf(call.args[1][i][2])) = 2
          /\ call.args[1][i][2].v[1] # call.args[1][i][2].v[2]
    /\ result.t = "list"
    /\ Len(result.v) >= 3

----------------------------------------------------------------------------
(* Properties of the merger followed by the filters, under SpecPipeline *)

(* the record as it is without a distance *)
WithoutDistance(point) == Dict([point.v EXCEPT !["distance"] = Absent])

(* the records the sources hold, as the merger is given them; a dict that a
   list of a source and the caller's list both hold is one record, with the
   distance filter_by_coordinates gave it *)
Originals == Concatenation(results)

(* C21: the filters and the merger only select or reject records and never
   change them: after any sequence of merge_data_sources, filter_by_date and
   filter_by_keyword calls every surviving record has exactly the field
   values it had before (a string date is not replaced by its parsed value),
   and filter_by_coordinates changes nothing except the 'distance' field of
   the records it accepts, in whatever list holds them. *)
FiltersNeverChangeRecords ==
    /\ call.op = "merge_data_sources" =>
          result.t = "list" /\ \A j \in 1..Len(result.v) : Occurs(result.v[j], Originals)
    /\ call.op \in {"filter_by_date", "filter_by_keyword"} =>
          /\ data = before
          /\ result.t = "list" => \A j \in 1..Len(result.v) : Occurs(result.v[j], before)
    /\ call.op = "filter_by_coordinates" =>
          /\ Len(data) = Len(before)
          /\ \A i \in 1..Len(before) :
                \/ data[i] = before[i]
                \/ LET distance == geodesic(<<Num(call.args[1]), Num(call.args[2])>>,
                                            <<before[i].v["latitude"], before[i].v["longitude"]>>)
                   IN  /\ IsNum(distance) /\ distance.v <= call.args[3]
                       /\ data[i] = Dict([before[i].v EXCEPT !["distance"] = distance])
          /\ result.t = "list" => \A j \in 1..Len(result.v) : Occurs(result.v[j], data)
    /\ \A i \in 1..Len(data) :
          /\ \E j \in 1..Len(Originals) : WithoutDistance(data[i]) = WithoutDistance(Originals[j])
          /\ alias.data[i] # <<>> =>
                data[i] = results[alias.data[i][1]][2].v[alias.data[i][2]]

(* the keyword filter applied after the merger and the other two filters:
   records were dropped, and a kept one has its distance and its date as the
   string it came with *)
FilteredAfterMergeAndFilters ==
    /\ call.op = "filter_by_keyword"
    /\ Len(results) = 2
    /\ Len(data) < Len(Originals)
    /\ result.t = "list"
    /\ \E j \in 1..Len(result.v) :
          /\ IsNum(result.v[j].v["distance"])
          /\ result.v[j].v["date"] = Str(<<PlainAfter>>)

----------------------------------------------------------------------------
(* Further properties of normalize_data, under Spec *)

WikipediaFields == {"title", "latitude", "longitude", "content", "url", "image_url"}

(* C13: for the encyclopedia source normalization is a pass-through that only
   stamps the source tag: normalizing a wikipedia adapter record with source
   'wikipedia' yields a record with source = 'wikipedia' whose title,
   latitude, longitude, content, url and image_url are the input's. *)
WikipediaIsPassedThrough ==
    (Called /\ source = "wikipedia" /\ raw \in WikipediaRecords) =>
        /\ Returned
        /\ normalized.v["source"] = Str(<<"wikipedia">>)
        /\ \A k \in WikipediaFields : normalized.v[k] = raw.v[k]

(* the raw record has a point geotag: a geo with a pair of coordinates *)
PointGeotag(d) ==
    /\ DictWith(d.v["geo"], "coordinates")
    /\ d.v["geo"].v["coordinates"].t = "list"
    /\ Len(d.v["geo"].v["coordinates"].v) >= 2

(* the vertices of the raw record's bounding box, none when it has no box *)
BoxVertices(d) ==
    LET place == d.v["place"]
        box == IF DictWith(place, "bounding_box") THEN place.v["bounding_box"] ELSE None
        rings == IF DictWith(box, "coordinates") THEN box.v["coordinates"] ELSE None
    IN  IF rings.t = "list" /\ rings.v # <<>> /\ rings.v[1].t = "list" THEN rings.v[1].v ELSE <<>>

RECURSIVE SumOfCoordinate(_, _)
SumOfCoordinate(vertices, i) ==
    IF vertices = <<>> THEN 0
    ELSE Head(vertices).v[i].v + SumOfCoordinate(Tail(vertices), i)

(* C14: for a twitter raw record normalize_data takes latitude and longitude
   from the point geotag (coordinates[0], coordinates[1]) when there is one,
   also when a bounding box is present; otherwise, when there is a bounding
   box, latitude and longitude are the arithmetic means over all its vertices
   of the vertex latitude (index 1) and longitude (index 0). *)
TwitterCoordinatesFromGeotagThenBox ==
    (Called /\ source = "twitter") =>
        IF PointGeotag(raw) THEN
            /\ Returned
            /\ normalized.v["latitude"] = raw.v["geo"].v["coordinates"].v[1]
            /\ normalized.v["longitude"] = raw.v["geo"].v["coordinates"].v[2]
        ELSE IF BoxVertices(raw) # <<>> /\ ~DictWith(raw.v["geo"], "coordinates") THEN
            /\ Returned
            /\ IsNum(normalized.v["latitude"]) /\ IsNum(normalized.v["longitude"])
            /\ normalized.v["latitude"].v * Len(BoxVertices(raw)) = SumOfCoordinate(BoxVertices(raw), 2)
            /\ normalized.v["longitude"].v * Len(BoxVertices(raw)) = SumOfCoordinate(BoxVertices(raw), 1)
        ELSE TRUE

NumericTexts == {Str(<<"0">>), Str(<<"0.5">>), Str(<<"1">>)}

(* the number of half degrees a numeric text of the model stands for *)
HalfDegrees(x) ==
    CASE x = Str(<<"0">>) -> Num(0)
      [] x = Str(<<"0.5">>) -> Num(1)
      [] x = Str(<<"1">>) -> Num(2)

(* C15: for a flickr raw record with latitude and longitude both numeric
   strings, normalize_data returns them parsed as numbers; the url is
   "https://www.flickr.com/photos/<owner>/<id>" when id and owner are both
   present and the empty default otherwise. *)
FlickrCoordinatesParsedAndUrlComposed ==
    (/\ Called /\ source = "flickr"
     /\ raw.v["latitude"] \in NumericTexts /\ raw.v["longitude"] \in NumericTexts) =>
        /\ Returned
        /\ normalized.v["latitude"] = HalfDegrees(raw.v["latitude"])
        /\ normalized.v["longitude"] = HalfDegrees(raw.v["longitude"])
        /\ normalized.v["url"] =
              IF raw.v["id"].t # "absent" /\ raw.v["owner"].t # "absent"
              THEN Str(<<"https://www.flickr.com/photos/">> \o raw.v["owner"].v
                       \o <<"/">> \o raw.v["id"].v)
              ELSE Str(<<>>)

(* a flickr record normalized from latitude "0.5", longitude "1", id "123"
   and owner "u1" *)
FlickrRecordWithParsedCoordinates ==
    /\ source = "flickr"
    /\ raw.v["latitude"] = Str(<<"0.5">>) /\ raw.v["longitude"] = Str(<<"1">>)
    /\ raw.v["id"] = Str(<<"123">>) /\ raw.v["owner"] = Str(<<"u1">>)
    /\ Returned
    /\ normalized.v["latitude"] = Num(1) /\ normalized.v["longitude"] = Num(2)
    /\ normalized.v["url"] = Str(<<"https://www.flickr.com/photos/", "u1", "/", "123">>)

(* the author's handle of a twitter raw record, Absent when the user or the
   handle is missing *)
Handle(d) ==
    IF DictWith(d.v["user"], "screen_name") THEN d.v["user"].v["screen_name"] ELSE Absent

(* C16: for every twitter raw record the normalized title is "@" followed by
   the author's handle (just "@" when the user or the handle is missing), and
   the url is "https://twitter.com/<handle>/status/<id>" exactly when the
   handle and the item id are both present, the empty default otherwise. *)
TwitterTitleAndUrl ==
    (Called /\ source = "twitter") =>
        /\ Returned
        /\ normalized.v["title"] =
              Str(<<"@">> \o (IF Handle(raw).t = "str" THEN Handle(raw).v ELSE <<>>))
        /\ normalized.v["url"] =
              IF Handle(raw).t = "str" /\ raw.v["id_str"].t = "str"
              THEN Str(<<"https://twitter.com/">> \o Handle(raw).v \o <<"/status/">>
                       \o raw.v["id_str"].v)
              ELSE Str(<<>>)

(* C17: every record normalize_data returns with coordinates present has
   -90 <= latitude <= 90 and -180 <= longitude <= 180 (in half degrees:
   -180..180 and -360..360), whatever coordinates the provider supplied. *)
CoordinatesAreInRange ==
    (Returned /\ IsNum(normalized.v["latitude"]) /\ IsNum(normalized.v["longitude"])) =>
        /\ normalized.v["latitude"].v \in -180..180
        /\ normalized.v["longitude"].v \in -360..360

(* C18: every record normalize_data returns has one source value, and it is
   one of the known source names, whatever source argument was given. *)
SourceIsKnown ==
    Returned =>
        \E s \in SourceNames : normalized.v["source"] = Str(<<s>>)

----------------------------------------------------------------------------
(* Properties of collect_data, under SpecCollect *)

(* the records collect_data keeps under results[src], none when it keeps no
   such entry *)
PerSource(src) ==
    IF \E i \in 1..Len(results) : results[i][1] = src
    THEN results[CHOOSE i \in 1..Len(results) : results[i][1] = src][2].v
    ELSE <<>>

(* C12: a record without a geotag is retained where no spatial filter is
   applied: after collect_data (which never calls filter_by_coordinates) has
   normalized the records of twitter or flickr, every normalized record with
   latitude and longitude None is in the per-source results and in the
   combined collection that goes to the date and keyword filters. *)
RecordsWithoutGeotagAreRetained ==
    (/\ call.op = "search" /\ source \in {"twitter", "flickr"}
     /\ source = call.args[1] /\ raw_data.t = "list" /\ run = "collecting") =>
        \A i \in 1..Len(raw_data.v) :
            LET n == normalize_data(raw_data.v[i], source)
            IN  (n.t = "dict" /\ HasNeither(n)) =>
                    /\ Occurs(n, PerSource(source))
                    /\ Occurs(n, data)

AdapterFailed == call.op = "search" /\ call.args[2] # "none"

(* C19: a failure of a source adapter (authentication, network, or any other
   exception raised while querying or iterating) is contained in the adapter:
   the adapter call returns a list, and the run is not ended by it. *)
AdapterFailureIsNeverFatal ==
    AdapterFailed =>
        /\ raw_data.t = "list"
        /\ run = "terminated" => result.exc \notin Failures

(* the place of a source name in the order of lines 106-126 *)
Rank(src) == CHOOSE i \in 1..Len(AllSources) : AllSources[i] = src

(* C24: collect_data processes the sources one after another: at every point
   of the source loop, and so when it ends, the combined collection is the
   concatenation of the per-source results lists, the sources appear in the
   fixed order twitter, flickr, wikipedia whatever flags were given, and every
   record of a source's list carries that source. *)
SourcesAreProcessedOneAfterAnother ==
    run \in {"collecting", "terminated"} =>
        /\ data = Concatenation(results)
        /\ \A i, j \in 1..Len(results) : i < j => Rank(results[i][1]) < Rank(results[j][1])
        /\ \A i \in 1..Len(results) : \A j \in 1..Len(results[i][2].v) :
              results[i][2].v[j].v["source"] = Str(<<results[i][1]>>)

(* the source loop has ended with records of twitter, of flickr and of
   wikipedia *)
CollectedFromThreeSources ==
    /\ run = "collecting" /\ sources = <<>>
    /\ Len(results) = 3
    /\ \A i \in 1..3 : results[i][2].v # <<>>
    /\ data[1].v["source"] = Str(<<"twitter">>)
    /\ data[Len(data)].v["source"] = Str(<<"wikipedia">>)

Finished == run \in {"returned", "map", "csv", "json"}

(* C27: in a collect_data run the date filter is always applied (the end date
   is always set) and drops every record without a date, so no wikipedia
   record is in the final filtered collection, whatever the adapter
   returned. *)
NoWikipediaRecordSurvives ==
    /\ args.mode # "none" => args.end_date.t = "datetime"
    /\ Finished => \A i \in 1..Len(data) : data[i].v["source"] # Str(<<"wikipedia">>)

(* a run in which the wikipedia adapter returned records and the filters left
   records of another source *)
FilteredRunWithWikipediaRecords ==
    /\ run = "returned"
    /\ PerSource("wikipedia") # <<>>
    /\ data # <<>>

(* collect_data has used start_date: for the since_days of the twitter or
   flickr adapter, or in the message of the date filter *)
StartDateUsed ==
    \/ call.op \in {"search", "since_days"} /\ source \in {"twitter", "flickr"}
    \/ call.op = "filters"

(* C28: whenever collect_data uses start_date it is a point in time, never
   None, for every accepted combination of --days, --start-date and
   --end-date, --days 0 without --start-date included. *)
StartDateIsAPointInTime ==
    StartDateUsed => args.start_date.t = "datetime"

----------------------------------------------------------------------------
(* Properties of the exporters, under SpecExport *)

(* the content of the file at the path the call returned, None without one *)
Written ==
    IF result.t = "str" /\ \E f \in disk.files : f[1] = result
    THEN (CHOOSE f \in disk.files : f[1] = result)[2]
    ELSE None

(* C20: for a non-empty collection neither export_to_csv nor export_to_json
   emits the raw payload: no row and no object of the file the call wrote
   (a call that could not open its file raised and wrote none) has a
   raw_data field, and every other field of every record is emitted. *)
RawPayloadIsNeverExported ==
    /\ (call.op = "export_to_csv" /\ before # <<>> /\ ~IsRaise(result)) =>
          /\ Written.t = "csv"
          /\ "raw_data" \notin Written.columns
          /\ Len(Written.rows) = Len(before)
          /\ \A i \in 1..Len(before) : \A k \in RecordKeys \ {"raw_data"} :
                HasKey(before[i], k) =>
                    /\ k \in Written.columns
                    /\ Written.rows[i][k] = Cell(before[i].v[k])
    /\ (call.op = "export_to_json" /\ before # <<>> /\ ~IsRaise(result)) =>
          /\ Written.t = "json"
          /\ Len(Written.objects) = Len(before)
          /\ \A i \in 1..Len(before) :
                /\ ~HasKey(Written.objects[i], "raw_data")
                /\ \A k \in RecordKeys \ {"raw_data"} :
                      HasKey(before[i], k) =>
                          Written.objects[i].v[k] =
                              IF before[i].v[k].t = "datetime" THEN IsoFormat(before[i].v[k])
                              ELSE before[i].v[k]

(* the structured file written from a collection that holds a record with a
   raw payload and a wikipedia record, which has none *)
ExportedRecordsWithRawPayload ==
    /\ call.op = "export_to_json"
    /\ run \in {"json", "done"}
    /\ \E i \in 1..Len(before) : before[i].v["raw_data"].t = "dict"
    /\ \E i \in 1..Len(before) : before[i].v["source"] = Str(<<"wikipedia">>)
    /\ Written.t = "json"
    /\ \A i \in 1..Len(before) : Written.objects[i].v["title"] = before[i].v["title"]

Exported == call'.op \in {"export_to_csv", "export_to_json"} /\ run' # run

(* the path of a file of the configured output directory, with no further
   directory in it *)
InOutputDirectory(path) ==
    /\ path.t = "str"
    /\ Len(path.v) > 2
    /\ path.v[1] = DEFAULT_OUTPUT_DIRECTORY /\ path.v[2] = "/"
    /\ \A i \in 3..Len(path.v) : path.v[i] # "/"

(* C29: exporting an empty collection is a no-op that reports no artifact:
   export_to_csv and export_to_json return None, create no directory and
   write no file; for a non-empty collection they return the path of the
   written file inside the configured output directory. *)
EmptyExportIsANoOp ==
    [][Exported =>
          IF data = <<>>
          THEN IsNone(result') /\ disk' = disk
          ELSE /\ InOutputDirectory(result')
               /\ <<DEFAULT_OUTPUT_DIRECTORY>> \in disk'.dirs
               /\ \E f \in disk'.files : f[1] = result'
               /\ \A f \in disk.files : f[1] # result' => f \in disk'.files]_vars

(* C30: export_to_json leaves the caller's collection unchanged: after the
   call every input record has all its fields with their original values,
   its raw payload and a datetime-valued date included, so a later export
   sees the same records. *)
JsonExportLeavesRecordsUnchanged ==
    call.op = "export_to_json" => data = before

(* a structured export of a record with a raw payload and of a record whose
   date is a datetime *)
ExportedRecordWithDatetime ==
    /\ call.op = "export_to_json"
    /\ \E i \in 1..Len(before) : before[i].v["raw_data"].t = "dict"
    /\ \E i \in 1..Len(before) :
          /\ before[i].v["date"].t = "datetime"
          /\ Written.t = "json"
          /\ Written.objects[i].v["date"] = IsoFormat(before[i].v["date"])
          /\ data[i].v["date"] = before[i].v["date"]

====
